---- MODULE Spec2Model ----
(***************************************************************************)
(* Model of semantic-sorter: the worker pipeline of src/src/worker.ts      *)
(* (initialize, runSort, ctx.onmessage) and the controller of              *)
(* src/src/main.ts (worker.onmessage, runSort, handleSorted, the layer     *)
(* controls, flyToEntity, renderMap), composed over the two postMessage    *)
(* channels.                                                               *)
(*                                                                         *)
(* Numbers.  Item indices and encoded locations are integers.  An          *)
(* embedding is a short integer vector standing for a direction: cosine    *)
(* similarity does not depend on the length of its arguments, and the      *)
(* embedder normalises its output (worker.ts:63).  A similarity is kept    *)
(* exactly, as the pair (dot, nn) that stands for dot / sqrt(nn), and      *)
(* Math.round(distance * 10000) is computed from it in exact integer       *)
(* arithmetic.                                                             *)
(***************************************************************************)
EXTENDS Integers, Sequences, FiniteSets, TLC

(***************************************************************************)
(* Bounds of the model.                                                    *)
(***************************************************************************)
MaxItems == 3           \* longest item list explored by the matrix specification
MaxStops == 3           \* longest stop list the optimizer returns
MaxRuns == 2            \* SORT requests the controller sends in one behaviour
MaxIndex == 40          \* the codec is applied to 0..MaxIndex and to CodecCorners
MaxCount == 20          \* problems are assembled for 2..MaxCount items and around CAPACITY
MaxInits == 2           \* initialize() invocations: the one at load and those for INIT

(***************************************************************************)
(* Program constants.                                                      *)
(***************************************************************************)
K == 1000               \* base of the location encoding
SCALE == 10000          \* cost = Math.round(distance * SCALE)
PENALTY == 20000        \* cost of a cell with a missing embedding
CAPACITY == 1000        \* the vehicle's capacity

(***************************************************************************)
(* Sequence helpers (Array.prototype.includes / map / slice).              *)
(***************************************************************************)
Range(s) == {s[i] : i \in 1..Len(s)}

\* faulty variant of includes: looks at the last element only
includesLast(arr, x) == Len(arr) > 0 /\ arr[Len(arr)] = x

includes(arr, x) == \E i \in 1..Len(arr) : arr[i] = x

SeqsUpTo(S, n) == UNION {[1..m -> S] : m \in 0..n}

Perms(S) == {p \in [1..Cardinality(S) -> S] : Range(p) = S}

(***************************************************************************)
(* Location codec, worker.ts:50-51.  JavaScript's % takes the sign of the  *)
(* dividend; Math.floor(idx / 1000) is the floored quotient.  Encoded      *)
(* locations are whole numbers, on which Math.round is the identity.       *)
(***************************************************************************)
JsRem(a, b) == IF a >= 0 THEN a % b ELSE 0 - ((0 - a) % b)

\* faulty variant of encodeLoc: a base of 100 for the minor field
encodeLocAliased(idx) == [lat |-> idx \div K, lng |-> JsRem(idx, 100)]

encodeLoc(idx) == [lat |-> idx \div K, lng |-> JsRem(idx, K)]

decodeLoc(loc) == loc.lat * K + loc.lng

(***************************************************************************)
(* cosineSimilarity, worker.ts:33-43.  The result dot / (sqrt(normA) *     *)
(* sqrt(normB)) is represented exactly by [dot, nn] with nn = normA*normB. *)
(***************************************************************************)
RECURSIVE DotFrom(_, _, _)
DotFrom(a, b, i) ==
    IF i > Len(a) THEN 0 ELSE a[i] * b[i] + DotFrom(a, b, i + 1)

Dot(a, b) == DotFrom(a, b, 1)

\* faulty variant of cosineSimilarity: normA used for both norms
cosineSimilarityOneNorm(a, b) == [dot |-> Dot(a, b), nn |-> Dot(a, a) * Dot(a, a)]

cosineSimilarity(a, b) == [dot |-> Dot(a, b), nn |-> Dot(a, a) * Dot(b, b)]

(***************************************************************************)
(* getDistance, worker.ts:45-48: Math.max(0, 1 - sim).  A distance is      *)
(* represented by the similarity s <= 1 it is 1 minus of: the clamp turns  *)
(* every similarity >= 1 into the similarity 1 (distance 0).               *)
(***************************************************************************)
SimAtLeastOne(sim) == sim.dot > 0 /\ sim.dot * sim.dot >= sim.nn

\* faulty variant of getDistance: Math.max(0, 1 + sim), the wrong sign
getDistancePlus(a, b) ==
    LET sim == cosineSimilarity(a, b)
    IN  IF sim.dot < 0 /\ sim.dot * sim.dot >= sim.nn THEN [dot |-> 1, nn |-> 1]
        ELSE [dot |-> 0 - sim.dot, nn |-> sim.nn]

getDistance(a, b) ==
    LET sim == cosineSimilarity(a, b)
    IN  IF SimAtLeastOne(sim) THEN [dot |-> 1, nn |-> 1] ELSE sim

(***************************************************************************)
(* Math.round(dist * 10000), worker.ts:133, for dist = 1 - dot/sqrt(nn).   *)
(* With t = SCALE * |dot| / sqrt(nn):                                      *)
(*   dot <= 0:  SCALE + floor(t + 1/2)                                     *)
(*   dot >  0:  SCALE - ceil(t - 1/2)                                      *)
(* (Math.round rounds halves up).  Both are found by bisection on          *)
(* comparisons of squares, which are exact.  FourTSquaredNn is (2t)^2*nn.  *)
(***************************************************************************)
FourTSquaredNn(d) == 4 * SCALE * SCALE * d.dot * d.dot

\* 2k - 1 <= 2t
HalfUpOk(d, k) == k = 0 \/ (2 * k - 1) * (2 * k - 1) * d.nn <= FourTSquaredNn(d)

\* 2m + 1 >= 2t
HalfDownOk(d, m) == (2 * m + 1) * (2 * m + 1) * d.nn >= FourTSquaredNn(d)

RECURSIVE LargestHalfUp(_, _, _)
LargestHalfUp(d, lo, hi) ==
    IF lo = hi THEN lo
    ELSE LET mid == (lo + hi + 1) \div 2
         IN  IF HalfUpOk(d, mid) THEN LargestHalfUp(d, mid, hi)
             ELSE LargestHalfUp(d, lo, mid - 1)

RECURSIVE SmallestHalfDown(_, _, _)
SmallestHalfDown(d, lo, hi) ==
    IF lo = hi THEN lo
    ELSE LET mid == (lo + hi) \div 2
         IN  IF HalfDownOk(d, mid) THEN SmallestHalfDown(d, lo, mid)
             ELSE SmallestHalfDown(d, mid + 1, hi)

RoundScaled(d) ==
    IF d.dot <= 0 THEN SCALE + LargestHalfUp(d, 0, SCALE)
    ELSE SCALE - SmallestHalfDown(d, 0, SCALE)

(***************************************************************************)
(* Texts and the embedder.  The embedder is deterministic (one direction   *)
(* per text) and normalised, so it never yields the zero vector.  "Cat"    *)
(* and "Dog" are close; "Car" is opposite to "Cat" and far from "Dog".     *)
(***************************************************************************)
Words == {"Cat", "Dog", "Car"}

Embed(w) ==
    CASE w = "Cat" -> <<1, 0>>
      [] w = "Dog" -> <<1, 1>>
      [] OTHER     -> <<-1, 0>>

tolist(entities) == [i \in 1..Len(entities) |-> Embed(entities[i])]

(***************************************************************************)
(* Problem assembly, worker.ts:81-109.  Item index idx is 0-based; the     *)
(* sequence position of item idx is idx + 1.                               *)
(***************************************************************************)
jobs(entities) ==
    [p \in 1..Len(entities) |->
        [id |-> p - 1,
         places |-> << [location |-> encodeLoc(p - 1), duration |-> 0] >>,
         demand |-> <<1>>]]

vehicle ==
    [costs |-> [fixed |-> 0, distance |-> 1, time |-> 0],
     shifts |-> << [start |-> [location |-> encodeLoc(0)]] >>,
     capacity |-> <<CAPACITY>>]

\* faulty variant of slice1: the whole array, anchor included
sliceNone(arr) == arr

slice1(arr) == SubSeq(arr, 2, Len(arr))

problemOf(entities) ==
    [jobs |-> slice1(jobs(entities)), vehicles |-> <<vehicle>>]

NoProblem == [jobs |-> <<>>, vehicles |-> <<>>]

\* The locations a problem references: its jobs' places and its shift starts.
JobLocations(problem) ==
    {problem.jobs[i].places[p].location :
        i \in 1..Len(problem.jobs), p \in 1..1}

StartLocations(problem) ==
    {problem.vehicles[i].shifts[1].start.location : i \in 1..Len(problem.vehicles)}

ProblemLocations(problem) == JobLocations(problem) \cup StartLocations(problem)

(***************************************************************************)
(* Matrix build, worker.ts:116-135.  LoopBody is the body of the inner     *)
(* loop (lines 121-133): it pushes one cell.  embeddings[idx] is undefined *)
(* (falsy) exactly when idx is outside 0..length-1.                        *)
(***************************************************************************)
\* faulty variant of HasEmbedding: the index is tested, and index 0 is falsy
HasEmbeddingFalsyZero(embeddings, idx) == idx > 0 /\ idx < Len(embeddings)

HasEmbedding(embeddings, idx) == idx >= 0 /\ idx < Len(embeddings)

\* faulty variant of LoopBody: i and j taken as item indices, no decoding
LoopBodyItemOrder(embeddings, routingLocations, i, j, distances) ==
    IF ~HasEmbedding(embeddings, i) \/ ~HasEmbedding(embeddings, j)
    THEN Append(distances, PENALTY)
    ELSE Append(distances,
                RoundScaled(getDistance(embeddings[i + 1], embeddings[j + 1])))

\* faulty variant of LoopBody: the penalty branch continues without a push
LoopBodyNoPenaltyPush(embeddings, routingLocations, i, j, distances) ==
    LET idxA == decodeLoc(routingLocations[i + 1])
        idxB == decodeLoc(routingLocations[j + 1])
    IN  IF ~HasEmbedding(embeddings, idxA) \/ ~HasEmbedding(embeddings, idxB)
        THEN distances
        ELSE Append(distances,
                    RoundScaled(getDistance(embeddings[idxA + 1],
                                            embeddings[idxB + 1])))

\* faulty variant of LoopBody: the fallback cost is that of distance 1
LoopBodyUnitPenalty(embeddings, routingLocations, i, j, distances) ==
    LET idxA == decodeLoc(routingLocations[i + 1])
        idxB == decodeLoc(routingLocations[j + 1])
    IN  IF ~HasEmbedding(embeddings, idxA) \/ ~HasEmbedding(embeddings, idxB)
        THEN Append(distances, SCALE)
        ELSE Append(distances,
                    RoundScaled(getDistance(embeddings[idxA + 1],
                                            embeddings[idxB + 1])))

LoopBody(embeddings, routingLocations, i, j, distances) ==
    LET u == routingLocations[i + 1]
        v == routingLocations[j + 1]
        idxA == decodeLoc(u)
        idxB == decodeLoc(v)
    IN  IF ~HasEmbedding(embeddings, idxA) \/ ~HasEmbedding(embeddings, idxB)
        THEN Append(distances, PENALTY)
        ELSE Append(distances,
                    RoundScaled(getDistance(embeddings[idxA + 1],
                                            embeddings[idxB + 1])))

RECURSIVE InnerLoop(_, _, _, _, _)
InnerLoop(embeddings, routingLocations, i, j, distances) ==
    IF j >= Len(routingLocations) THEN distances
    ELSE InnerLoop(embeddings, routingLocations, i, j + 1,
                   LoopBody(embeddings, routingLocations, i, j, distances))

RECURSIVE OuterLoop(_, _, _, _)
OuterLoop(embeddings, routingLocations, i, distances) ==
    IF i >= Len(routingLocations) THEN distances
    ELSE OuterLoop(embeddings, routingLocations, i + 1,
                   InnerLoop(embeddings, routingLocations, i, 0, distances))

buildDistances(embeddings, routingLocations) ==
    OuterLoop(embeddings, routingLocations, 0, <<>>)

(***************************************************************************)
(* Solution decoding, worker.ts:156-162.  StopBody is the forEach          *)
(* callback.                                                               *)
(***************************************************************************)
\* faulty variant of StopBody: a new index is put in front
StopBodyPutsInFront(stop, sortedIndices) ==
    LET locationIdx == decodeLoc(stop.location)
    IN  IF ~includes(sortedIndices, locationIdx)
        THEN << locationIdx >> \o sortedIndices
        ELSE sortedIndices

\* faulty variant of StopBody: no includes test
StopBodyAlwaysPush(stop, sortedIndices) ==
    Append(sortedIndices, decodeLoc(stop.location))

StopBody(stop, sortedIndices) ==
    LET locationIdx == decodeLoc(stop.location)
    IN  IF ~includes(sortedIndices, locationIdx)
        THEN Append(sortedIndices, locationIdx)
        ELSE sortedIndices

RECURSIVE forEachStop(_, _, _)
forEachStop(stops, k, sortedIndices) ==
    IF k > Len(stops) THEN sortedIndices
    ELSE forEachStop(stops, k + 1, StopBody(stops[k], sortedIndices))

\* faulty variant of decodeStops: the departure stop is skipped
decodeStopsSkipDeparture(stops) == forEachStop(stops, 2, <<>>)

decodeStops(stops) == forEachStop(stops, 1, <<>>)

(***************************************************************************)
(* Messages.  A message carries its type and payload; payload is a text    *)
(* (STATUS, ERROR), a result (SORTED) or an item list (SORT).  The field   *)
(* run is not part of the program's message: it records which runSort      *)
(* invocation posted it (0: none), and the controller never reads it.      *)
(***************************************************************************)
NoData == [sortedIndices |-> <<>>, embeddings |-> <<>>,
           coordinates |-> <<>>, entities |-> <<>>]

Msg(type, text, data, run) ==
    [type |-> type, text |-> text, data |-> data, run |-> run]

StatusMsg(text, r) == Msg("STATUS", text, NoData, r)

ErrorMsg(text, r) == Msg("ERROR", text, NoData, r)

\* worker.ts:27-29
\* faulty variant of InitCatchMessages: READY is posted after the catch too
InitCatchThenReady(e) == << ErrorMsg(e, 0), Msg("READY", "", NoData, 0) >>

InitCatchMessages(e) == << ErrorMsg(e, 0) >>

\* worker.ts:143
\* faulty variant of SolvingStatus: nothing is posted before the solve
SolvingStatusMissing(r) == <<>>

SolvingStatus(r) == << StatusMsg("Solving TSP (WASM)...", r) >>

\* worker.ts:55
\* faulty variant of NotReadyMessages: a STATUS precedes the ERROR
NotReadyAfterStatus(r) ==
    << StatusMsg("Computing embeddings...", r), ErrorMsg("Worker not ready", r) >>

NotReadyMessages(r) == << ErrorMsg("Worker not ready", r) >>

\* worker.ts:177-180
\* faulty variant of CatchMessages: the ERROR does not say what was thrown
CatchMessagesGeneric(r, e) == << ErrorMsg("Sort failed.", r) >>

\* faulty variant of CatchMessages: the catch block posts nothing
CatchPostsNothing(r, e) == <<>>

\* faulty variant of CatchMessages: a STATUS follows the ERROR
CatchThenStatus(r, e) == << ErrorMsg(e, r), StatusMsg("Failed.", r) >>

CatchMessages(r, e) == << ErrorMsg(e, r) >>

\* worker.ts:173-175
\* faulty variant of NoSolutionMessages: posted as STATUS
NoSolutionAsStatus(r) == << StatusMsg("No solution found.", r) >>

NoSolutionMessages(r) == << ErrorMsg("No solution found.", r) >>

\* worker.ts:164-172
\* faulty variant of SortedMessages: the items are sent in reverse
SortedItemsReversed(r, sortedIndices, embeddings, coordinates, entities) ==
    << Msg("SORTED", "",
           [sortedIndices |-> sortedIndices, embeddings |-> embeddings,
            coordinates |-> coordinates,
            entities |-> [i \in 1..Len(entities) |->
                             entities[Len(entities) + 1 - i]]], r) >>

\* faulty variant of SortedMessages: falls through to the else branch's ERROR
SortedFallsThrough(r, sortedIndices, embeddings, coordinates, entities) ==
    << Msg("SORTED", "",
           [sortedIndices |-> sortedIndices, embeddings |-> embeddings,
            coordinates |-> coordinates, entities |-> entities], r),
       ErrorMsg("No solution found.", r) >>

SortedMessages(r, sortedIndices, embeddings, coordinates, entities) ==
    << Msg("SORTED", "",
           [sortedIndices |-> sortedIndices, embeddings |-> embeddings,
            coordinates |-> coordinates, entities |-> entities], r) >>

(***************************************************************************)
(* The map view, main.ts:20-29, 128-144, 173-238.  A position of the map   *)
(* is kept exactly: [x, y, den] stands for (x / den, y / den).  Sizes of   *)
(* layers are in tenths of a pixel.  The deck keeps the layers and the     *)
(* initialViewState it was last given, and its camera viewState: Deck's    *)
(* setProps moves the camera to a given initialViewState that differs      *)
(* from the one it had been given before.  Gestures of the user on the     *)
(* canvas are not modelled.                                                *)
(***************************************************************************)
InitialLayerState ==
    [points |-> TRUE, lines |-> TRUE, labels |-> TRUE, scores |-> FALSE,
     arrows |-> FALSE, radius |-> 8, lineWidth |-> 3, labelSize |-> 14]

Origin == [x |-> 0, y |-> 0, den |-> 1]

\* { target: [0, 0, 0], zoom: 1 }, main.ts:132-135 and 237
DefaultViewState == [target |-> Origin, zoom |-> 1, transitionDuration |-> 0]

\* new Deck({...}), main.ts:128-144
initDeck ==
    [layers |-> <<>>, initialViewState |-> DefaultViewState,
     viewState |-> DefaultViewState]

\* deckInstance.setProps(props): props holds layers, initialViewState or both
setProps(d, props) ==
    [layers |-> IF "layers" \in DOMAIN props THEN props.layers ELSE d.layers,
     initialViewState |->
         IF "initialViewState" \in DOMAIN props THEN props.initialViewState
         ELSE d.initialViewState,
     viewState |->
         IF "initialViewState" \in DOMAIN props
            /\ props.initialViewState # d.initialViewState
         THEN props.initialViewState
         ELSE d.viewState]

SetMin(S) == CHOOSE x \in S : \A y \in S : x <= y

SetMax(S) == CHOOSE x \in S : \A y \in S : x >= y

\* `x || 1`
OrOne(x) == IF x = 0 THEN 1 ELSE x

\* faulty variant of ScaledPosition: measured from the corner (minX, minY)
ScaledPositionFromCorner(coordinates, c) ==
    LET xs == {coordinates[i][1] : i \in 1..Len(coordinates)}
        ys == {coordinates[i][2] : i \in 1..Len(coordinates)}
        w == OrOne(SetMax(xs) - SetMin(xs))
        h == OrOne(SetMax(ys) - SetMin(ys))
    IN  [x |-> (2 * c[1] - 2 * SetMin(xs)) * 100,
         y |-> (2 * c[2] - 2 * SetMin(ys)) * 100,
         den |-> IF w >= h THEN w ELSE h]

\* flyToEntity's target for the point c: (c - (min + max) / 2) * scale on both
\* axes, scale = 200 / max(maxX - minX || 1, maxY - minY || 1); main.ts:176-186
ScaledPosition(coordinates, c) ==
    LET xs == {coordinates[i][1] : i \in 1..Len(coordinates)}
        ys == {coordinates[i][2] : i \in 1..Len(coordinates)}
        w == OrOne(SetMax(xs) - SetMin(xs))
        h == OrOne(SetMax(ys) - SetMin(ys))
    IN  [x |-> (2 * c[1] - (SetMin(xs) + SetMax(xs))) * 100,
         y |-> (2 * c[2] - (SetMin(ys) + SetMax(ys))) * 100,
         den |-> IF w >= h THEN w ELSE h]

\* the legs of the path that get an arrow: those between two distinct points
ArrowLegs(sortedIndices, coordinates) ==
    {i \in 1..(Len(sortedIndices) - 1) :
        coordinates[sortedIndices[i] + 1] # coordinates[sortedIndices[i + 1] + 1]}

\* renderMap's scaledCoords, main.ts:196-205: one position per coordinate
scaledCoords(coordinates) ==
    LET minX == SetMin({coordinates[i][1] : i \in 1..Len(coordinates)})
        maxX == SetMax({coordinates[i][1] : i \in 1..Len(coordinates)})
        minY == SetMin({coordinates[i][2] : i \in 1..Len(coordinates)})
        maxY == SetMax({coordinates[i][2] : i \in 1..Len(coordinates)})
        spanX == IF maxX - minX = 0 THEN 1 ELSE maxX - minX
        spanY == IF maxY - minY = 0 THEN 1 ELSE maxY - minY
    IN  [i \in 1..Len(coordinates) |->
            [x |-> (2 * coordinates[i][1] - (minX + maxX)) * 100,
             y |-> (2 * coordinates[i][2] - (minY + maxY)) * 100,
             den |-> IF spanX >= spanY THEN spanX ELSE spanY]]

Layer(id, count, size) == [id |-> id, count |-> count, size |-> size]

\* a layer of pointsData: one element per item, at its position
PointLayer(id, positions, size) ==
    [id |-> id, count |-> Len(positions), size |-> size, positions |-> positions]

Optional(shown, layer) == IF shown THEN <<layer>> ELSE <<>>

\* renderMap, main.ts:194-238: the layers of the switches that are on, in the
\* order they are pushed, each with the number of its data elements and its
\* size; then setProps with these layers and the default initialViewState
renderMap(ls, d, sortedIndices, entities, coordinates) ==
    LET legs == IF Len(sortedIndices) > 0 THEN Len(sortedIndices) - 1 ELSE 0
        arrowWidth == IF ls.lineWidth * 7 > 20 THEN ls.lineWidth * 7 ELSE 20
        layers ==
            Optional(ls.lines, Layer("path-layer", legs, ls.lineWidth * 10))
            \o Optional(ls.arrows,
                        Layer("arrow-layer",
                              Cardinality(ArrowLegs(sortedIndices, coordinates)),
                              arrowWidth))
            \o Optional(ls.scores, Layer("score-layer", legs, 120))
            \o Optional(ls.points,
                        PointLayer("scatter-layer", scaledCoords(coordinates),
                                   ls.radius * 10))
            \o Optional(ls.labels,
                        PointLayer("text-layer", scaledCoords(coordinates),
                                   ls.labelSize * 10))
    IN  setProps(d, [layers |-> layers, initialViewState |-> DefaultViewState])

\* faulty variant of flyToEntity: the layers are given too, as an empty list
flyToEntityClearsLayers(d, coordinates, targetIndex) ==
    IF targetIndex >= 0 /\ targetIndex < Len(coordinates)
    THEN setProps(d, [layers |-> <<>>,
                      initialViewState |->
                         [target |-> ScaledPosition(coordinates,
                                                    coordinates[targetIndex + 1]),
                          zoom |-> 3, transitionDuration |-> 800]])
    ELSE d

\* flyToEntity past its first line, main.ts:175-191
flyToEntity(d, coordinates, targetIndex) ==
    IF targetIndex >= 0 /\ targetIndex < Len(coordinates)
    THEN setProps(d, [initialViewState |->
                         [target |-> ScaledPosition(coordinates,
                                                    coordinates[targetIndex + 1]),
                          zoom |-> 3, transitionDuration |-> 800]])
    ELSE d

(***************************************************************************)
(* The similarity table, main.ts:260-275.  rows is the number of rows of   *)
(* its body; threshIn is the value of the slider, a text; threshVal is the *)
(* text shown next to it and threshold the table's CSS property            *)
(* --threshold, both as the page's markup has them ("markup") until        *)
(* update sets them.  A number is kept in hundredths.                      *)
(***************************************************************************)
ThresholdValues == {"0.5", "0.75", "1"}

InitialMatrixTable ==
    [rows |-> 0, threshIn |-> "0.5", threshVal |-> "markup", threshold |-> "markup"]

parseFloat(text) ==
    CASE text = "0.5" -> 50
      [] text = "0.75" -> 75
      [] OTHER -> 100

\* v.toFixed(2)
toFixed2(v) ==
    CASE v = 50 -> "0.50"
      [] v = 75 -> "0.75"
      [] OTHER -> "1.00"

\* v.toString()
toString(v) ==
    CASE v = 50 -> "0.5"
      [] v = 75 -> "0.75"
      [] OTHER -> "1"

\* update, main.ts:271
update(t, v) == [t EXCEPT !.threshVal = toFixed2(v), !.threshold = toString(v)]

\* renderMatrix, main.ts:260-275: the rows are rebuilt, and the threshold is
\* shown as the slider has it
renderMatrix(t, entities) ==
    update([t EXCEPT !.rows = Len(entities)], parseFloat(t.threshIn))

(***************************************************************************)
(* State.                                                                  *)
(***************************************************************************)
VARIABLES
    extractor,        \* worker.ts:9   TRUE once the embedding pipeline is loaded
    vrpReady,         \* worker.ts:10
    inits,            \* one entry per initialize() invocation: where it stands
    inbox,            \* messages posted by the controller, not yet handled
    runs,             \* one entry per runSort() invocation: its locals
    running,          \* the run whose synchronous continuation holds the thread
    toMain,           \* messages posted by the worker, not yet delivered
    posted,           \* history: every message the worker posted, in order
    received,         \* history: every message worker.onmessage handled, in order
    mainVrpReady,     \* main.ts:7
    sortBtnDisabled,  \* sortBtn.disabled
    status,           \* the text shown by setStatus
    currentMapData,   \* main.ts:11-16
    layerState,       \* main.ts:20-29
    deck,             \* main.ts:8   deckInstance: its layers and its camera
    matrixTable,      \* main.ts:260-275  the similarity table and its threshold
    probe             \* the codec applied to a pair of indices

workerVars == <<extractor, vrpReady, inits, inbox, runs, running>>

channelVars == <<toMain, posted, received>>

mainVars == <<mainVrpReady, sortBtnDisabled, status, currentMapData>>

viewVars == <<layerState, deck, matrixTable>>

vars == <<workerVars, channelVars, mainVars, viewVars, probe>>

\* `solution` before line 150 assigns it; then kind is "absent" (no tours
\* property) or "list" (tours is an array)
NoSolution == [kind |-> "undefined", tours |-> <<>>]

NoResult == [present |-> FALSE, sortedIndices |-> <<>>, entities |-> <<>>,
             coordinates |-> <<>>, embeddings |-> <<>>]

IdleProbe == [stage |-> "idle", a |-> 0, b |-> 0,
              locA |-> encodeLoc(0), locB |-> encodeLoc(0), outA |-> 0, outB |-> 0]

\* thrown is not a local of runSort: it records what the catch block of
\* lines 177-180 has caught ("": nothing)
NewRun(entities, pc) ==
    [pc |-> pc, entities |-> entities, embeddings |-> <<>>, coordinates |-> <<>>,
     problem |-> NoProblem, routingLocations |-> <<>>, distances |-> <<>>,
     solution |-> NoSolution, sortedIndices |-> <<>>, thrown |-> ""]

\* ctx.postMessage: the messages are queued for the controller in order.
Post(msgs) ==
    /\ toMain' = toMain \o msgs
    /\ posted' = posted \o msgs

(***************************************************************************)
(* Init: both scripts have run.  worker.ts:192 has called initialize(),    *)
(* which is suspended at `await init()`; main.ts:278 has created the       *)
(* worker.  The sort button's initial disabled attribute comes from the    *)
(* page, which is not part of the sources: both values are possible.       *)
(***************************************************************************)
Init ==
    /\ extractor = FALSE
    /\ vrpReady = FALSE
    /\ inits = << "awaitInit" >>
    /\ inbox = <<>>
    /\ runs = <<>>
    /\ running = 0
    /\ toMain = <<>>
    /\ posted = <<>>
    /\ received = <<>>
    /\ mainVrpReady = FALSE
    /\ sortBtnDisabled \in BOOLEAN
    /\ status = [kind |-> "SYSTEM_INITIALIZING", text |-> "ATTACHING_WORKER_CORE"]
    /\ currentMapData = NoResult
    /\ layerState = InitialLayerState
    /\ deck = initDeck
    /\ matrixTable = InitialMatrixTable
    /\ probe = IdleProbe

(***************************************************************************)
(* What the outside can do.  A specification explores one scope of the     *)
(* inputs and collaborator results:                                        *)
(*   "protocol": few item lists, every collaborator may throw or return a  *)
(*               null where a location or a stop is expected, the          *)
(*               optimizer returns one of a few solutions, MaxRuns         *)
(*               requests;                                                 *)
(*   "decode":   one request; the optimizer returns every stop list of up  *)
(*               to MaxStops stops over the problem's locations;           *)
(*   "matrix":   one request; every item list of 2..MaxItems words, every  *)
(*               ordering of the canonical location list, and the solver's *)
(*               own order with a location that has no embedding put at    *)
(*               every position;                                           *)
(*   "view":     two requests for the items Cat, Dog, Car, no collaborator *)
(*               throws, the optimizer returns the round trip; the user    *)
(*               works the controls of the map;                            *)
(*   "fly":      one request for two or three items, both layouts, the     *)
(*               round trip; flyToEntity is called with any index;         *)
(*   "open":     two requests for two items, no collaborator throws, the   *)
(*               round trip; besides the controller, any client of the     *)
(*               worker posts INIT and SORT at any time;                   *)
(*   "store":    two requests for two items out of Cat, Dog, Car, the      *)
(*               optimizer throws or returns the round trip; the user      *)
(*               works the controls of the map;                            *)
(*   "live":     as "protocol", for two requests of two items.             *)
(* A collaborator's result is [ok, value]: ok = FALSE is a throw.          *)
(***************************************************************************)
Threw == [ok |-> FALSE, value |-> <<>>]

\* JSON's null where a location or a stop is expected: reading a property
\* of it throws a TypeError (worker.ts:51, 158)
NullValue == [null |-> TRUE]

Returned(v) == [ok |-> TRUE, value |-> v]

\* The textarea's lines.  " " is a line of white space only.
Texts(scope) ==
    IF scope = "matrix"
    THEN {t \in SeqsUpTo(Words, MaxItems) : Len(t) >= 2}
    ELSE IF scope = "view" THEN { <<"Cat", "Dog", "Car">> }
    ELSE IF scope = "fly" THEN { <<"Cat", "Dog">>, <<"Cat", "Dog", "Car">> }
    ELSE IF scope = "open" THEN { <<"Cat", "Dog">> }
    ELSE IF scope = "store" THEN { <<"Cat", "Dog">>, <<"Dog", "Car">> }
    ELSE IF scope = "live" THEN { <<"Cat", "Dog">> }
    ELSE { <<" ">>, <<"Cat">>, <<"Cat", " ">>,
           <<"Cat", "Dog">>, <<"Cat", " ", "Dog", "Car">> }

RunBudget(scope) ==
    IF scope = "protocol" THEN MaxRuns
    ELSE IF scope \in {"view", "open", "store", "live"} THEN 2 ELSE 1

\* extractor(entities, ...) then output.tolist(), worker.ts:63-64
EmbedOutcomes(scope, entities) ==
    {Returned(tolist(entities))}
        \cup (IF scope \in {"protocol", "live"} THEN {Threw} ELSE {})

\* umap.fit(embeddings), worker.ts:76: one 2D point per item
Layouts(n) == { [i \in 1..n |-> <<i - 1, 0>>], [i \in 1..n |-> <<0, i - 1>>] }

ProjectOutcomes(scope, n) ==
    IF scope \in {"protocol", "live"}
    THEN {Returned([i \in 1..n |-> <<i - 1, 0>>]), Threw}
    ELSE IF scope \in {"decode", "fly"} THEN {Returned(l) : l \in Layouts(n)}
    ELSE {Returned([i \in 1..n |-> <<i - 1, 0>>])}

\* get_routing_locations(problem), worker.ts:113-114: the unique locations
\* the problem references, in the solver's own order.
JobsFirst(problem) ==
    [i \in 1..(Len(problem.jobs) + 1) |->
        IF i <= Len(problem.jobs) THEN problem.jobs[i].places[1].location
        ELSE problem.vehicles[1].shifts[1].start.location]

\* a location that decodes to an index no item has
StrayLocation(problem) == encodeLoc(Len(problem.jobs) + 1)

InsertAt(seq, k, x) == SubSeq(seq, 1, k) \o <<x>> \o SubSeq(seq, k + 1, Len(seq))

QueryOutcomes(scope, problem) ==
    IF scope = "matrix"
    THEN {Returned(l) : l \in Perms(ProblemLocations(problem))}
         \cup {Returned(InsertAt(JobsFirst(problem), k, StrayLocation(problem))) :
                 k \in 0..(Len(problem.jobs) + 1)}
    ELSE IF scope \in {"protocol", "live"}
    THEN {Returned(JobsFirst(problem)), Returned(<< NullValue >>), Threw}
    ELSE {Returned(JobsFirst(problem))}

\* solve_pragmatic(problem, matrixData, config), worker.ts:149-150
Stops(locations) == [i \in 1..Len(locations) |-> [location |-> locations[i]]]

Tour(locations) == [kind |-> "list", tours |-> << [stops |-> Stops(locations)] >>]

ToursAbsent == [kind |-> "absent", tours |-> <<>>]

ToursEmpty == [kind |-> "list", tours |-> <<>>]

\* a tour whose only stop is null
TourOfNull == [kind |-> "list", tours |-> << [stops |-> << NullValue >>] >>]

\* the anchor, every job, and the anchor again
RoundTrip(problem) ==
    [i \in 1..(Len(problem.jobs) + 2) |->
        IF i = 1 \/ i = Len(problem.jobs) + 2
        THEN problem.vehicles[1].shifts[1].start.location
        ELSE problem.jobs[i - 1].places[1].location]

SolveOutcomes(scope, problem) ==
    IF scope \in {"protocol", "live"}
    THEN {Threw, Returned(ToursAbsent), Returned(ToursEmpty), Returned(TourOfNull),
          Returned(Tour(<<>>)), Returned(Tour(RoundTrip(problem)))}
    ELSE IF scope = "decode"
    THEN {Returned(Tour(l)) : l \in SeqsUpTo(ProblemLocations(problem), MaxStops)}
    ELSE IF scope \in {"view", "fly", "open"}
    THEN {Returned(Tour(RoundTrip(problem)))}
    ELSE IF scope = "store"
    THEN {Threw, Returned(Tour(RoundTrip(problem)))}
    ELSE {Returned(ToursAbsent)}

(***************************************************************************)
(* Worker: initialize(), worker.ts:14-30.  Every entry of inits is one     *)
(* invocation; a step is the code between two awaits.  Nothing of the      *)
(* worker runs while a run's continuation holds the thread.                *)
(***************************************************************************)
\* `await init()` settles: lines 16-24 or the catch of line 28
InitSettle(k) ==
    /\ running = 0
    /\ inits[k] = "awaitInit"
    /\ \E ok \in BOOLEAN :
         IF ok
         THEN /\ vrpReady' = TRUE
              /\ inits' = [inits EXCEPT ![k] = "awaitPipeline"]
              /\ UNCHANGED <<toMain, posted>>
         ELSE /\ inits' = [inits EXCEPT ![k] = "failed"]
              /\ Post(InitCatchMessages("Init error: init"))
              /\ UNCHANGED vrpReady
    /\ UNCHANGED <<extractor, inbox, runs, running, received, mainVars, viewVars, probe>>

\* `await pipeline(...)` settles: lines 21-26 or the catch of line 28
PipelineSettle(k) ==
    /\ running = 0
    /\ inits[k] = "awaitPipeline"
    /\ \E ok \in BOOLEAN :
         IF ok
         THEN /\ extractor' = TRUE
              /\ inits' = [inits EXCEPT ![k] = "done"]
              /\ Post(<< Msg("READY", "", NoData, 0) >>)
         ELSE /\ inits' = [inits EXCEPT ![k] = "failed"]
              /\ Post(InitCatchMessages("Init error: pipeline"))
              /\ UNCHANGED extractor
    /\ UNCHANGED <<vrpReady, inbox, runs, running, received, mainVars, viewVars, probe>>

(***************************************************************************)
(* Worker: ctx.onmessage, worker.ts:183-190, with the synchronous start    *)
(* of what it calls: initialize() up to `await init()`, or runSort() up    *)
(* to `await extractor(...)` (lines 53-63).                                *)
(***************************************************************************)
WorkerOnMessage ==
    /\ running = 0
    /\ inbox # <<>>
    /\ inbox' = Tail(inbox)
    /\ LET m == Head(inbox)
           r == Len(runs) + 1
       IN  IF m.type = "INIT"
           THEN /\ inits' = Append(inits, "awaitInit")
                /\ UNCHANGED <<runs, toMain, posted>>
           ELSE IF m.type = "SORT"
           THEN IF ~extractor \/ ~vrpReady
                THEN /\ Post(NotReadyMessages(r))
                     /\ runs' = Append(runs, NewRun(m.data.entities, "done"))
                     /\ UNCHANGED inits
                ELSE /\ Post(<< StatusMsg("Computing embeddings...", r) >>)
                     /\ runs' = Append(runs, NewRun(m.data.entities, "awaitEmbed"))
                     /\ UNCHANGED inits
           ELSE UNCHANGED <<inits, runs, toMain, posted>>
    /\ UNCHANGED <<extractor, vrpReady, running, received, mainVars, viewVars, probe>>

(***************************************************************************)
(* Worker: the continuation of runSort after the await, worker.ts:63-180,  *)
(* one step per stage.  It is synchronous: from EmbedSettle to the step    *)
(* that ends the run, `running` keeps every other worker step out.  A      *)
(* throw goes to the catch block (lines 177-180).                          *)
(***************************************************************************)
Catch(r, e) ==
    /\ Post(CatchMessages(r, e))
    /\ runs' = [runs EXCEPT ![r].pc = "done", ![r].thrown = e]
    /\ running' = 0

\* lines 63-66
EmbedSettle(scope, r) ==
    /\ running = 0
    /\ runs[r].pc = "awaitEmbed"
    /\ \E o \in EmbedOutcomes(scope, runs[r].entities) :
         IF o.ok
         THEN /\ runs' = [runs EXCEPT ![r].embeddings = o.value,
                                      ![r].pc = "project"]
              /\ running' = r
              /\ Post(<< StatusMsg("Projecting with UMAP (2D)...", r) >>)
         ELSE Catch(r, "Error: extractor")
    /\ UNCHANGED <<extractor, vrpReady, inits, inbox, received, mainVars, viewVars, probe>>

\* lines 69-78
Project(scope, r) ==
    /\ running = r
    /\ runs[r].pc = "project"
    /\ \E o \in ProjectOutcomes(scope, Len(runs[r].embeddings)) :
         IF o.ok
         THEN /\ runs' = [runs EXCEPT ![r].coordinates = o.value,
                                      ![r].pc = "assemble"]
              /\ Post(<< StatusMsg("Calculating distance matrix...", r) >>)
              /\ UNCHANGED running
         ELSE Catch(r, "Error: umap")
    /\ UNCHANGED <<extractor, vrpReady, inits, inbox, received, mainVars, viewVars, probe>>

\* lines 81-109
Assemble(r) ==
    /\ running = r
    /\ runs[r].pc = "assemble"
    /\ runs' = [runs EXCEPT ![r].problem = problemOf(runs[r].entities),
                            ![r].pc = "query"]
    /\ UNCHANGED <<extractor, vrpReady, inits, inbox, running,
                   channelVars, mainVars, viewVars, probe>>

\* lines 113-114
Query(scope, r) ==
    /\ running = r
    /\ runs[r].pc = "query"
    /\ \E o \in QueryOutcomes(scope, runs[r].problem) :
         IF o.ok
         THEN /\ runs' = [runs EXCEPT ![r].routingLocations = o.value,
                                      ![r].pc = "matrix"]
              /\ UNCHANGED <<running, toMain, posted>>
         ELSE Catch(r, "Error: get_routing_locations")
    /\ UNCHANGED <<extractor, vrpReady, inits, inbox, received, mainVars, viewVars, probe>>

\* lines 116-143
BuildMatrix(r) ==
    /\ running = r
    /\ runs[r].pc = "matrix"
    /\ IF \E i \in 1..Len(runs[r].routingLocations) :
              runs[r].routingLocations[i] = NullValue
       THEN Catch(r, "TypeError: Cannot read properties of null (reading 'lat')")
       ELSE /\ runs' = [runs EXCEPT
                          ![r].distances =
                              buildDistances(runs[r].embeddings,
                                             runs[r].routingLocations),
                          ![r].pc = "solve"]
            /\ Post(SolvingStatus(r))
            /\ UNCHANGED running
    /\ UNCHANGED <<extractor, vrpReady, inits, inbox, received,
                   mainVars, viewVars, probe>>

\* lines 145-150
Solve(scope, r) ==
    /\ running = r
    /\ runs[r].pc = "solve"
    /\ \E o \in SolveOutcomes(scope, runs[r].problem) :
         IF o.ok
         THEN /\ runs' = [runs EXCEPT ![r].solution = o.value,
                                      ![r].pc = "decode"]
              /\ UNCHANGED <<running, toMain, posted>>
         ELSE Catch(r, "Error: solve_pragmatic")
    /\ UNCHANGED <<extractor, vrpReady, inits, inbox, received, mainVars, viewVars, probe>>

\* lines 152-175
Decode(r) ==
    /\ running = r
    /\ runs[r].pc = "decode"
    /\ LET solution == runs[r].solution
       IN  IF solution.kind = "list" /\ Len(solution.tours) > 0
           THEN IF \E i \in 1..Len(solution.tours[1].stops) :
                      solution.tours[1].stops[i] = NullValue
                THEN Catch(r, "TypeError: Cannot read properties of null (reading 'location')")
                ELSE LET sortedIndices == decodeStops(solution.tours[1].stops)
                     IN  /\ runs' = [runs EXCEPT ![r].sortedIndices = sortedIndices,
                                                 ![r].pc = "done"]
                         /\ Post(SortedMessages(r, sortedIndices, runs[r].embeddings,
                                                runs[r].coordinates, runs[r].entities))
                         /\ running' = 0
           ELSE /\ runs' = [runs EXCEPT ![r].pc = "done"]
                /\ Post(NoSolutionMessages(r))
                /\ running' = 0
    /\ UNCHANGED <<extractor, vrpReady, inits, inbox, received, mainVars, viewVars, probe>>

(***************************************************************************)
(* Controller: worker.onmessage, main.ts:110-125, with handleSorted,       *)
(* main.ts:161-171.  The status line is [kind, text]; toUpperCase is       *)
(* applied to a STATUS payload (line 117).                                 *)
(***************************************************************************)
toUpperCase(text) ==
    CASE text = "Computing embeddings..."        -> "COMPUTING EMBEDDINGS..."
      [] text = "Projecting with UMAP (2D)..."   -> "PROJECTING WITH UMAP (2D)..."
      [] text = "Calculating distance matrix..." -> "CALCULATING DISTANCE MATRIX..."
      [] text = "Solving TSP (WASM)..."          -> "SOLVING TSP (WASM)..."
      [] OTHER                                   -> text

StatusLine(kind, text) == [kind |-> kind, text |-> text]

\* faulty variant of ErrorStatus: the payload is not shown
ErrorStatusWithoutText(payload) == StatusLine("FATAL_EXCEPTION", "")

\* main.ts:120
ErrorStatus(payload) == StatusLine("FATAL_EXCEPTION", payload)

\* faulty variant of StoredResult: a result already stored is kept
StoredResultKeepsFirst(payload) ==
    IF currentMapData.present THEN currentMapData
    ELSE [present |-> TRUE,
          sortedIndices |-> payload.sortedIndices,
          entities |-> payload.entities,
          coordinates |-> payload.coordinates,
          embeddings |-> payload.embeddings]

\* main.ts:165
StoredResult(payload) ==
    [present |-> TRUE,
     sortedIndices |-> payload.sortedIndices,
     entities |-> payload.entities,
     coordinates |-> payload.coordinates,
     embeddings |-> payload.embeddings]

handleSorted(payload) ==
    /\ currentMapData' = StoredResult(payload)
    /\ matrixTable' = renderMatrix(matrixTable, payload.entities)
    /\ deck' = renderMap(layerState, deck, payload.sortedIndices,
                         payload.entities, payload.coordinates)
    /\ status' = StatusLine("OPTM_COMPLETE", "")
    /\ sortBtnDisabled' = FALSE
    /\ UNCHANGED mainVrpReady

MainOnMessage ==
    /\ toMain # <<>>
    /\ toMain' = Tail(toMain)
    /\ received' = Append(received, Head(toMain))
    /\ LET m == Head(toMain)
       IN  IF m.type = "READY"
           THEN /\ mainVrpReady' = TRUE
                /\ status' = StatusLine("SYSTEM_READY", "COMPUTE_DOCK_ESTABLISHED")
                /\ sortBtnDisabled' = FALSE
                /\ UNCHANGED <<currentMapData, deck, matrixTable>>
           ELSE IF m.type = "STATUS"
           THEN /\ status' = StatusLine("TASK_PROGRESS", toUpperCase(m.text))
                /\ UNCHANGED <<mainVrpReady, sortBtnDisabled, currentMapData, deck,
                               matrixTable>>
           ELSE IF m.type = "ERROR"
           THEN /\ status' = ErrorStatus(m.text)
                /\ sortBtnDisabled' = FALSE
                /\ UNCHANGED <<mainVrpReady, currentMapData, deck, matrixTable>>
           ELSE IF m.type = "SORTED"
           THEN handleSorted(m.data)
           ELSE UNCHANGED <<mainVars, deck, matrixTable>>
    /\ UNCHANGED <<workerVars, posted, layerState, probe>>

(***************************************************************************)
(* Controller: runSort, main.ts:146-159, run by a click on the sort button *)
(* (main.ts:277); a disabled button dispatches no click.  The text is the  *)
(* sequence of its lines.                                                  *)
(***************************************************************************)
trim(line) == IF line = " " THEN "" ELSE line

entitiesOf(lines) ==
    SelectSeq([i \in 1..Len(lines) |-> trim(lines[i])], LAMBDA l : l # "")

\* faulty variant of TooFew: one item is let through
TooFewBelowOne(entities) == Len(entities) < 1

\* main.ts:151
TooFew(entities) == Len(entities) < 2

SortMsg(entities) == Msg("SORT", "", [NoData EXCEPT !.entities = entities], 0)

\* faulty variant of ControllerNotReady: runSort does not test vrpReady
ControllerNotReadyUntested == FALSE

\* main.ts:147  !worker || !vrpReady (the worker exists from main.ts:108 on)
ControllerNotReady == ~mainVrpReady

\* faulty variant of DisabledOnSort: the button is left enabled
DisabledOnSortForgotten == FALSE

\* main.ts:155  sortBtn.disabled = true
DisabledOnSort == TRUE

MainRunSort(scope) ==
    /\ ~sortBtnDisabled
    /\ Len(runs) + Len(inbox) < RunBudget(scope)
    /\ \E lines \in Texts(scope) :
         LET entities == entitiesOf(lines) IN
         IF ControllerNotReady \/ entities = <<>>
         THEN UNCHANGED <<inbox, sortBtnDisabled, status>>
         ELSE IF TooFew(entities)
         THEN /\ status' = StatusLine("VALIDATION_ERROR",
                                      "NULL_SET_OR_INSUFFICIENT_NODES")
              /\ UNCHANGED <<inbox, sortBtnDisabled>>
         ELSE /\ sortBtnDisabled' = DisabledOnSort
              /\ status' = StatusLine("PIPELINE_START", "DISTRIBUTING_WORKLOAD")
              /\ inbox' = Append(inbox, SortMsg(entities))
    /\ UNCHANGED <<extractor, vrpReady, inits, runs, running, channelVars,
                   mainVrpReady, currentMapData, viewVars, probe>>

(***************************************************************************)
(* Controller: the handlers bindLayerControl installs, main.ts:42-69: the  *)
(* user flips a switch or moves a slider to another value.                 *)
(***************************************************************************)
Switches == {"points", "lines", "labels", "scores", "arrows"}

Sliders == {"radius", "lineWidth", "labelSize"}

\* the values a control can be given
ControlValues(key) ==
    CASE key \in Switches  -> BOOLEAN
      [] key = "radius"    -> {8, 12}
      [] key = "lineWidth" -> {1, 3}
      [] OTHER             -> {14, 20}

LayerControl ==
    /\ \E key \in Switches \cup Sliders :
         \E v \in ControlValues(key) \ {layerState[key]} :
            LET changed == [layerState EXCEPT ![key] = v]
            IN  /\ layerState' = changed
                /\ IF currentMapData.present
                   THEN deck' = renderMap(changed, deck,
                                          currentMapData.sortedIndices,
                                          currentMapData.entities,
                                          currentMapData.coordinates)
                   ELSE UNCHANGED deck
    /\ UNCHANGED <<workerVars, channelVars, mainVars, matrixTable, probe>>

(***************************************************************************)
(* Controller: flyToEntity, main.ts:173-192, run by a click on an entry of *)
(* the result list (main.ts:254), on a row of the matrix table (main.ts:   *)
(* 267-268) or on a point of the map (main.ts:234).  All three exist only  *)
(* once a result is shown.                                                 *)
(***************************************************************************)
FlyTargets ==
    (0..(Len(currentMapData.entities) - 1)) \cup Range(currentMapData.sortedIndices)

FlyTo ==
    /\ currentMapData.present
    /\ \E targetIndex \in FlyTargets :
         deck' = flyToEntity(deck, currentMapData.coordinates, targetIndex)
    /\ UNCHANGED <<workerVars, channelVars, mainVars, layerState, matrixTable, probe>>

(***************************************************************************)
(* Controller: the slider of the similarity threshold is moved.  Its       *)
(* oninput handler (main.ts:273) is installed by renderMatrix, so it       *)
(* exists once a result was shown; before, the slider moves and nothing    *)
(* runs.                                                                   *)
(***************************************************************************)
\* faulty variant of ThresholdInput: the handler renders the map as the
\* handlers of the layer controls do
ThresholdInputRendersMap ==
    /\ \E value \in ThresholdValues \ {matrixTable.threshIn} :
         LET moved == [matrixTable EXCEPT !.threshIn = value]
         IN  matrixTable' = IF currentMapData.present
                            THEN update(moved, parseFloat(value))
                            ELSE moved
    /\ IF currentMapData.present
       THEN deck' = renderMap(layerState, deck, currentMapData.sortedIndices,
                              currentMapData.entities, currentMapData.coordinates)
       ELSE UNCHANGED deck
    /\ UNCHANGED <<workerVars, channelVars, mainVars, layerState, probe>>

ThresholdInput ==
    /\ \E value \in ThresholdValues \ {matrixTable.threshIn} :
         LET moved == [matrixTable EXCEPT !.threshIn = value]
         IN  matrixTable' = IF currentMapData.present
                            THEN update(moved, parseFloat(value))
                            ELSE moved
    /\ UNCHANGED <<workerVars, channelVars, mainVars, layerState, deck, probe>>

(***************************************************************************)
(* Any client of the worker: the worker's onmessage (worker.ts:183-190)    *)
(* takes INIT and SORT from whoever posts them, at any time.  main.ts      *)
(* itself never posts INIT, and posts SORT only after READY.               *)
(***************************************************************************)
InitMsg == Msg("INIT", "", NoData, 0)

PendingInits == Cardinality({i \in 1..Len(inbox) : inbox[i].type = "INIT"})

ClientInit ==
    /\ Len(inits) + PendingInits < MaxInits
    /\ inbox' = Append(inbox, InitMsg)
    /\ UNCHANGED <<extractor, vrpReady, inits, runs, running, channelVars,
                   mainVars, viewVars, probe>>

ClientSort ==
    /\ Len(runs) + Len(inbox) - PendingInits < RunBudget("open")
    /\ \E lines \in Texts("open") : inbox' = Append(inbox, SortMsg(entitiesOf(lines)))
    /\ UNCHANGED <<extractor, vrpReady, inits, runs, running, channelVars,
                   mainVars, viewVars, probe>>

(***************************************************************************)
(* flyToEntity, main.ts:173-192, called on its own with any index, also    *)
(* one that no item has, and also before any result exists (its callers in *)
(* the page exist only once a result is shown).  probe records the call:   *)
(* the index, and a flip that tells two calls in a row apart.              *)
(***************************************************************************)
FlyToCall ==
    /\ \E targetIndex \in 0..MaxItems :
         /\ probe' = [stage |-> "flown", targetIndex |-> targetIndex,
                      flip |-> IF probe.stage = "flown" THEN 1 - probe.flip ELSE 0]
         /\ IF ~currentMapData.present
            THEN UNCHANGED deck
            ELSE deck' = flyToEntity(deck, currentMapData.coordinates, targetIndex)
    /\ UNCHANGED <<workerVars, channelVars, mainVars, layerState, matrixTable>>

(***************************************************************************)
(* The codec applied to a pair of indices: encodeLoc, then decodeLoc.      *)
(***************************************************************************)
CodecCorners == {m * K + d : m \in {1, 2, K - 1}, d \in {0, 1, K - 1}}

\* indices outside the codec's domain 0..K*K-1: negative ones and too large ones
CodecOutside == {0 - 1, 0 - K, 0 - K - 1, K * K, K * K + 1}

CodecInputs == (0..MaxIndex) \cup CodecCorners \cup CodecOutside

ProbeEncode ==
    /\ probe.stage = "in"
    /\ probe' = [probe EXCEPT !.stage = "encoded",
                              !.locA = encodeLoc(probe.a),
                              !.locB = encodeLoc(probe.b)]
    /\ UNCHANGED <<workerVars, channelVars, mainVars, viewVars>>

ProbeDecode ==
    /\ probe.stage = "encoded"
    /\ probe' = [probe EXCEPT !.stage = "decoded",
                              !.outA = decodeLoc(probe.locA),
                              !.outB = decodeLoc(probe.locB)]
    /\ UNCHANGED <<workerVars, channelVars, mainVars, viewVars>>

InitCodec ==
    /\ extractor = FALSE
    /\ vrpReady = FALSE
    /\ inits = << "awaitInit" >>
    /\ inbox = <<>>
    /\ runs = <<>>
    /\ running = 0
    /\ toMain = <<>>
    /\ posted = <<>>
    /\ received = <<>>
    /\ mainVrpReady = FALSE
    /\ sortBtnDisabled = TRUE
    /\ status = StatusLine("SYSTEM_INITIALIZING", "ATTACHING_WORKER_CORE")
    /\ currentMapData = NoResult
    /\ layerState = InitialLayerState
    /\ deck = initDeck
    /\ matrixTable = InitialMatrixTable
    /\ probe \in {[IdleProbe EXCEPT !.stage = "in", !.a = a, !.b = b] :
                     a \in CodecInputs, b \in CodecInputs}

NextCodec == ProbeEncode \/ ProbeDecode

(***************************************************************************)
(* The problem assembly of worker.ts:81-109 applied to an item list on its *)
(* own.  It reads the number of items only; the lists are n times one      *)
(* word, for 2..MaxCount items and for item counts around the vehicle's    *)
(* capacity.                                                               *)
(***************************************************************************)
ItemCounts == (2..MaxCount) \cup {CAPACITY, CAPACITY + 1, CAPACITY + 2}

ItemLists == {[i \in 1..n |-> w] : n \in ItemCounts, w \in Words}

ProbeAssemble ==
    /\ probe.stage = "items"
    /\ probe' = [probe EXCEPT !.stage = "assembled",
                              !.problem = problemOf(probe.entities)]
    /\ UNCHANGED <<workerVars, channelVars, mainVars, viewVars>>

InitAssemble ==
    /\ extractor = FALSE
    /\ vrpReady = FALSE
    /\ inits = << "awaitInit" >>
    /\ inbox = <<>>
    /\ runs = <<>>
    /\ running = 0
    /\ toMain = <<>>
    /\ posted = <<>>
    /\ received = <<>>
    /\ mainVrpReady = FALSE
    /\ sortBtnDisabled = TRUE
    /\ status = StatusLine("SYSTEM_INITIALIZING", "ATTACHING_WORKER_CORE")
    /\ currentMapData = NoResult
    /\ layerState = InitialLayerState
    /\ deck = initDeck
    /\ matrixTable = InitialMatrixTable
    /\ probe \in {[stage |-> "items", entities |-> e, problem |-> NoProblem] :
                     e \in ItemLists}

NextAssemble == ProbeAssemble

(***************************************************************************)
(* Specifications.                                                         *)
(***************************************************************************)
Next(scope) ==
    \/ \E k \in 1..Len(inits) : InitSettle(k)
    \/ \E k \in 1..Len(inits) : PipelineSettle(k)
    \/ WorkerOnMessage
    \/ \E r \in 1..Len(runs) : EmbedSettle(scope, r)
    \/ \E r \in 1..Len(runs) : Project(scope, r)
    \/ \E r \in 1..Len(runs) : Assemble(r)
    \/ \E r \in 1..Len(runs) : Query(scope, r)
    \/ \E r \in 1..Len(runs) : BuildMatrix(r)
    \/ \E r \in 1..Len(runs) : Solve(scope, r)
    \/ \E r \in 1..Len(runs) : Decode(r)
    \/ MainOnMessage
    \/ MainRunSort(scope)

NextProtocol == Next("protocol")

NextDecode == Next("decode")

NextMatrix == Next("matrix")

NextView == Next("view") \/ LayerControl \/ FlyTo

NextFly == Next("fly") \/ FlyToCall

NextOpen == Next("open") \/ ClientInit \/ ClientSort

NextGuard == Next("open") \/ ClientSort

NextStore == Next("store") \/ LayerControl \/ FlyTo

NextThreshold == Next("fly") \/ FlyTo \/ ThresholdInput

\* the composed system, protocol scope
Spec == Init /\ [][NextProtocol]_vars

(***************************************************************************)
(* The composed system with its scheduling, live scope.  A collaborator    *)
(* call that was started returns or throws; the synchronous remainder of   *)
(* runSort runs on; each thread's event loop hands a queued message to its *)
(* onmessage handler.  Nothing makes the user click, and nothing makes the *)
(* worker's initialization settle.                                         *)
(***************************************************************************)
RunStep ==
    \E r \in 1..Len(runs) :
       \/ EmbedSettle("live", r)
       \/ Project("live", r)
       \/ Assemble(r)
       \/ Query("live", r)
       \/ BuildMatrix(r)
       \/ Solve("live", r)
       \/ Decode(r)

NextLive == Next("live")

SpecLive ==
    /\ Init
    /\ [][NextLive]_vars
    /\ WF_vars(RunStep)
    /\ WF_vars(WorkerOnMessage)
    /\ WF_vars(MainOnMessage)

\* the composed system, decode scope
SpecDecode == Init /\ [][NextDecode]_vars

\* the composed system, matrix scope
SpecMatrix == Init /\ [][NextMatrix]_vars

\* the composed system with the controls of the map, view scope
SpecView == Init /\ [][NextView]_vars

\* the composed system with flyToEntity called on its own, fly scope
SpecFly == Init /\ [][NextFly]_vars

\* the worker with any client, open scope
SpecOpen == Init /\ [][NextOpen]_vars

\* the worker with a client that posts SORT at any time, open scope
SpecGuard == Init /\ [][NextGuard]_vars

\* the composed system with the controls of the map, store scope
SpecStore == Init /\ [][NextStore]_vars

\* the composed system with the focus on an item and the threshold slider,
\* fly scope
SpecThreshold == Init /\ [][NextThreshold]_vars

\* the location codec on its own
SpecCodec == InitCodec /\ [][NextCodec]_vars

\* the problem assembly on its own
SpecAssemble == InitAssemble /\ [][NextAssemble]_vars

(***************************************************************************)
(* Properties.                                                             *)
(***************************************************************************)
IsTerminal(m) == m.type = "SORTED" \/ m.type = "ERROR"

\* positions of the messages of type `type` that run r posted
PostedBy(r, type) == {i \in 1..Len(posted) : posted[i].run = r /\ posted[i].type = type}

\* run r has built its matrix and is about to hand it to the optimizer
MatrixBuilt(r) == runs[r].pc = "solve"

CellAt(r, i, j) == runs[r].distances[i * Len(runs[r].routingLocations) + j + 1]

ItemAt(r, i) == decodeLoc(runs[r].routingLocations[i + 1])

NoTours(solution) ==
    solution.kind = "absent" \/ (solution.kind = "list" /\ solution.tours = <<>>)

\* C1: once the matrix is built, the cell at flat position i*n+j is the cost
\* between the embeddings of the items that positions i and j of the canonical
\* location list decode to, whatever the order of that list.
C1_MatrixFollowsCanonicalOrder ==
    \A r \in 1..Len(runs) :
        MatrixBuilt(r) =>
            \A i, j \in 0..(Len(runs[r].routingLocations) - 1) :
                (HasEmbedding(runs[r].embeddings, ItemAt(r, i))
                   /\ HasEmbedding(runs[r].embeddings, ItemAt(r, j)))
                => CellAt(r, i, j) =
                       RoundScaled(getDistance(runs[r].embeddings[ItemAt(r, i) + 1],
                                               runs[r].embeddings[ItemAt(r, j) + 1]))

\* a built matrix over a list that is not in item order, with a cell that
\* differs from the cost of the items numbered like its row and column
C1_Witness ==
    \E r \in 1..Len(runs) :
        /\ MatrixBuilt(r)
        /\ Len(runs[r].routingLocations) = Len(runs[r].embeddings)
        /\ \E i, j \in 0..(Len(runs[r].routingLocations) - 1) :
              /\ ItemAt(r, i) # i
              /\ CellAt(r, i, j) #
                     RoundScaled(getDistance(runs[r].embeddings[i + 1],
                                             runs[r].embeddings[j + 1]))

\* the indices the codec is specified for
InRange(idx) == idx \in 0..(K * K - 1)

\* C2: decodeLoc(encodeLoc(i)) = i for the indices of the codec's domain that
\* are applied, below and above K, and two distinct indices never share an
\* encoded location.
C2_CodecRoundTrip ==
    (probe.stage = "decoded" /\ InRange(probe.a) /\ InRange(probe.b)) =>
        /\ probe.outA = probe.a
        /\ probe.outB = probe.b
        /\ (probe.locA = probe.locB => probe.a = probe.b)

C2_Witness ==
    /\ probe.stage = "decoded"
    /\ probe.a >= K
    /\ probe.b < K
    /\ probe.locA.lng = probe.locB.lng
    /\ probe.outA = probe.a

\* C3: a run posts at most one terminal message (SORTED or ERROR), and exactly
\* one once it has ended.
C3_OneTerminalPerRun ==
    \A r \in 1..Len(runs) :
        LET n == Cardinality(PostedBy(r, "SORTED")) + Cardinality(PostedBy(r, "ERROR"))
        IN  /\ n <= 1
            /\ runs[r].pc = "done" => n = 1

\* one ended run posted SORTED, another ended run posted ERROR
C3_Witness ==
    \E r, q \in 1..Len(runs) :
        /\ runs[r].pc = "done" /\ runs[q].pc = "done"
        /\ PostedBy(r, "SORTED") # {}
        /\ PostedBy(q, "ERROR") # {}

\* C4: no run posts a STATUS after its terminal message, and the controller
\* has handled a prefix of what the worker posted, in the order posted.
C4_StatusBeforeTerminalInOrder ==
    /\ \A i, j \in 1..Len(posted) :
          (i < j /\ posted[i].run # 0 /\ posted[i].run = posted[j].run
             /\ IsTerminal(posted[i]))
          => posted[j].type # "STATUS"
    /\ Len(received) <= Len(posted)
    /\ \A i \in 1..Len(received) : received[i] = posted[i]

\* the controller has handled a whole successful run: four STATUS, then SORTED
C4_Witness ==
    \E r \in 1..Len(runs) :
        /\ Cardinality({i \in 1..Len(received) :
                          received[i].run = r /\ received[i].type = "STATUS"}) = 4
        /\ Len(received) > 0
        /\ received[Len(received)].run = r
        /\ received[Len(received)].type = "SORTED"

\* C5: a run whose solution has no tours (absent, or an empty list) ends with
\* exactly one ERROR, no SORTED, and that ERROR is the last message it posted.
C5_NoToursOneError ==
    \A r \in 1..Len(runs) :
        (runs[r].pc = "done" /\ NoTours(runs[r].solution)) =>
            /\ Cardinality(PostedBy(r, "ERROR")) = 1
            /\ PostedBy(r, "SORTED") = {}
            /\ \A e \in PostedBy(r, "ERROR"), i \in PostedBy(r, "STATUS") : i < e

\* both shapes have happened: tours absent in one run, tours empty in another
C5_Witness ==
    \E r, q \in 1..Len(runs) :
        /\ runs[r].pc = "done" /\ runs[r].solution.kind = "absent"
        /\ runs[q].pc = "done" /\ runs[q].solution = ToursEmpty
        /\ PostedBy(r, "ERROR") # {} /\ PostedBy(q, "ERROR") # {}

\* C6: a run whose first tour has an empty stop list ends with ERROR and
\* without SORTED, and no SORTED with an empty order is ever posted.
C6_EmptyStopsFail ==
    /\ \A r \in 1..Len(runs) :
          (runs[r].pc = "done" /\ runs[r].solution.kind = "list"
             /\ Len(runs[r].solution.tours) > 0
             /\ runs[r].solution.tours[1].stops = <<>>)
          => (PostedBy(r, "ERROR") # {} /\ PostedBy(r, "SORTED") = {})
    /\ \A i \in 1..Len(posted) :
          posted[i].type = "SORTED" => posted[i].data.sortedIndices # <<>>

\* C7: the order of a SORTED message holds no item index twice.
C7_OrderHasNoDuplicates ==
    \A k \in 1..Len(posted) :
        posted[k].type = "SORTED" =>
            \A i, j \in 1..Len(posted[k].data.sortedIndices) :
                i # j => posted[k].data.sortedIndices[i] # posted[k].data.sortedIndices[j]

\* a SORTED was posted for a tour that comes back to a location it had left
C7_Witness ==
    \E r \in 1..Len(runs) :
        /\ PostedBy(r, "SORTED") # {}
        /\ LET stops == runs[r].solution.tours[1].stops
           IN  /\ Len(stops) = 3
               /\ stops[1] = stops[3]
               /\ stops[1] # stops[2]
               /\ Len(runs[r].sortedIndices) = 2

\* C8: the order of a SORTED message is no longer than the canonical location
\* list of the run that posted it.
C8_OrderWithinLocationList ==
    \A k \in 1..Len(posted) :
        posted[k].type = "SORTED" =>
            Len(posted[k].data.sortedIndices)
                <= Len(runs[posted[k].run].routingLocations)

\* a SORTED was posted whose tour has more stops than there are locations
C8_Witness ==
    \E k \in 1..Len(posted) :
        /\ posted[k].type = "SORTED"
        /\ Len(runs[posted[k].run].solution.tours[1].stops)
              > Len(runs[posted[k].run].routingLocations)
        /\ Len(posted[k].data.sortedIndices) = Len(runs[posted[k].run].routingLocations)

\* C9: the matrix handed to the optimizer has exactly n*n cells, n the length
\* of the canonical location list, also when an index has no embedding.
C9_MatrixHasNSquaredCells ==
    \A r \in 1..Len(runs) :
        MatrixBuilt(r) =>
            Len(runs[r].distances)
                = Len(runs[r].routingLocations) * Len(runs[r].routingLocations)

\* a built matrix over a list with a location that has no embedding
C9_Witness ==
    \E r \in 1..Len(runs) :
        /\ MatrixBuilt(r)
        /\ \E i \in 0..(Len(runs[r].routingLocations) - 1) :
              ~HasEmbedding(runs[r].embeddings, ItemAt(r, i))
        /\ Len(runs[r].distances) = 16

\* C10: the matrix is symmetric, computed cells and penalty cells alike.
C10_MatrixSymmetric ==
    \A r \in 1..Len(runs) :
        MatrixBuilt(r) =>
            \A i, j \in 0..(Len(runs[r].routingLocations) - 1) :
                CellAt(r, i, j) = CellAt(r, j, i)

\* a built matrix with a penalty cell and a computed non-zero cell off the diagonal
C10_Witness ==
    \E r \in 1..Len(runs) :
        /\ MatrixBuilt(r)
        /\ \E i, j \in 0..(Len(runs[r].routingLocations) - 1) :
              /\ i # j
              /\ ~HasEmbedding(runs[r].embeddings, ItemAt(r, i))
              /\ CellAt(r, i, j) = PENALTY
        /\ \E i, j \in 0..(Len(runs[r].routingLocations) - 1) :
              /\ i # j
              /\ HasEmbedding(runs[r].embeddings, ItemAt(r, i))
              /\ HasEmbedding(runs[r].embeddings, ItemAt(r, j))
              /\ CellAt(r, i, j) > 0
              /\ CellAt(r, i, j) < PENALTY

\* item position i of run r's canonical list decodes to an index of an item
IsItem(r, i) == ItemAt(r, i) \in 0..(Len(runs[r].embeddings) - 1)

\* C11 (as stated): every diagonal cell of a built matrix is 0.
C11_DiagonalIsZero ==
    \A r \in 1..Len(runs) :
        MatrixBuilt(r) =>
            \A i \in 0..(Len(runs[r].routingLocations) - 1) : CellAt(r, i, i) = 0

\* C11 (amended): the diagonal cell of a location that decodes to an item is
\* 0; the diagonal cell of a location with no embedding is the penalty.
C11_DiagonalZeroForItems ==
    \A r \in 1..Len(runs) :
        MatrixBuilt(r) =>
            \A i \in 0..(Len(runs[r].routingLocations) - 1) :
                CellAt(r, i, i) = IF IsItem(r, i) THEN 0 ELSE PENALTY

\* a built matrix whose diagonal holds both: 0 for the anchor and for an item
\* whose embedding is not a unit vector, the penalty for a location with no
\* embedding
C11_Witness ==
    \E r \in 1..Len(runs) :
        /\ MatrixBuilt(r)
        /\ \E i, j, k \in 0..(Len(runs[r].routingLocations) - 1) :
              /\ ItemAt(r, i) = 0 /\ CellAt(r, i, i) = 0
              /\ IsItem(r, j) /\ runs[r].entities[ItemAt(r, j) + 1] = "Dog"
              /\ CellAt(r, j, j) = 0
              /\ ~IsItem(r, k) /\ CellAt(r, k, k) = PENALTY

\* C12: when a location of the canonical list decodes to an index with no
\* embedding, every cell of its row and of its column is the penalty, the
\* matrix still has all its n*n cells, and the run has announced the solving
\* stage as the last thing it posted, with no ERROR.
C12_PenaltyRowAndColumn ==
    \A r \in 1..Len(runs) :
        (MatrixBuilt(r)
           /\ \E k \in 0..(Len(runs[r].routingLocations) - 1) : ~IsItem(r, k))
        => /\ \A i, j \in 0..(Len(runs[r].routingLocations) - 1) :
                (~IsItem(r, i) \/ ~IsItem(r, j)) => CellAt(r, i, j) = PENALTY
           /\ Len(runs[r].distances)
                 = Len(runs[r].routingLocations) * Len(runs[r].routingLocations)
           /\ PostedBy(r, "ERROR") = {}
           /\ \E s \in PostedBy(r, "STATUS") :
                 /\ posted[s].text = "Solving TSP (WASM)..."
                 /\ \A i \in 1..Len(posted) : posted[i].run = r => i <= s

\* a built matrix over a list whose middle location has no embedding, with a
\* computed cell next to the penalty cells
C12_Witness ==
    \E r \in 1..Len(runs) :
        /\ MatrixBuilt(r)
        /\ Len(runs[r].routingLocations) = 4
        /\ ~IsItem(r, 1)
        /\ CellAt(r, 1, 0) = PENALTY /\ CellAt(r, 0, 1) = PENALTY
        /\ CellAt(r, 1, 1) = PENALTY /\ CellAt(r, 3, 1) = PENALTY
        /\ CellAt(r, 0, 2) > 0 /\ CellAt(r, 0, 2) < SCALE
        /\ PostedBy(r, "ERROR") = {}

\* the embedding of the item that position i of run r's canonical list decodes to
EmbeddingAt(r, i) == runs[r].embeddings[ItemAt(r, i) + 1]

\* C13 (as stated): the distance of any two embeddings is at most 1 (their
\* similarity, after the clamp, is not negative), and every computed cell
\* lies in 0..10000.
C13_DistanceAtMostOne ==
    \A r \in 1..Len(runs) :
        MatrixBuilt(r) =>
            \A i, j \in 0..(Len(runs[r].routingLocations) - 1) :
                (IsItem(r, i) /\ IsItem(r, j)) =>
                    /\ getDistance(EmbeddingAt(r, i), EmbeddingAt(r, j)).dot >= 0
                    /\ CellAt(r, i, j) \in 0..SCALE

\* C13 (amended): the distance of any two embeddings lies between 0 and 2
\* (it is 1 - s for a similarity s with -1 <= s <= 1), every computed cell
\* lies in 0..20000, and a cell exceeds 10000 only for embeddings whose dot
\* product is negative.
C13_DistanceAtMostTwo ==
    \A r \in 1..Len(runs) :
        MatrixBuilt(r) =>
            \A i, j \in 0..(Len(runs[r].routingLocations) - 1) :
                (IsItem(r, i) /\ IsItem(r, j)) =>
                    LET d == getDistance(EmbeddingAt(r, i), EmbeddingAt(r, j))
                    IN  /\ d.dot * d.dot <= d.nn
                        /\ CellAt(r, i, j) \in 0..(2 * SCALE)
                        /\ CellAt(r, i, j) > SCALE
                              => Dot(EmbeddingAt(r, i), EmbeddingAt(r, j)) < 0

\* a built matrix with a cell of every kind: 0, between 0 and 10000, between
\* 10000 and 20000, and 20000 computed for two opposite embeddings
C13_Witness ==
    \E r \in 1..Len(runs) :
        /\ MatrixBuilt(r)
        /\ \A i \in 0..(Len(runs[r].routingLocations) - 1) : IsItem(r, i)
        /\ \E i, j, k \in 0..(Len(runs[r].routingLocations) - 1) :
              /\ CellAt(r, i, i) = 0
              /\ CellAt(r, i, j) > 0 /\ CellAt(r, i, j) < SCALE
              /\ CellAt(r, j, k) > SCALE /\ CellAt(r, j, k) < 2 * SCALE
              /\ CellAt(r, i, k) = 2 * SCALE

\* a value encodeLoc returned is a location (and no sentinel)
IsLocation(loc) ==
    /\ DOMAIN loc = {"lat", "lng"}
    /\ loc.lat \in Int
    /\ loc.lng \in Int

\* C14: applied to an index outside 0..K*K-1, encodeLoc returns no location.
C14_EncodeFailsOutsideRange ==
    (probe.stage \in {"encoded", "decoded"} /\ ~InRange(probe.a))
    => ~IsLocation(probe.locA)

\* encodeLoc(-1) has returned a location, and it decodes to -1001
C14_Witness ==
    /\ probe.stage = "decoded"
    /\ probe.a = 0 - 1
    /\ probe.locA = [lat |-> 0 - 1, lng |-> 0 - 1]
    /\ probe.outA = 0 - K - 1

\* C15: the problem assembled for N >= 2 items has exactly N-1 jobs, the
\* k-th being the job of item k (k = 1..N-1): one place, at encodeLoc(k), of
\* duration 0, and demand 1; no job is at the anchor's location.
C15_OneJobPerNonAnchorItem ==
    (probe.stage = "assembled" /\ Len(probe.entities) >= 2) =>
        LET n == Len(probe.entities)
            js == probe.problem.jobs
        IN  /\ Len(js) = n - 1
            /\ \A k \in 1..(n - 1) :
                  /\ js[k].id = k
                  /\ Len(js[k].places) = 1
                  /\ js[k].places[1].location = encodeLoc(k)
                  /\ js[k].places[1].duration = 0
                  /\ js[k].demand = <<1>>
            /\ \A k \in 1..Len(js) : js[k].places[1].location # encodeLoc(0)

\* a problem assembled for more than K items: the job of item K is at (1, 0)
C15_Witness ==
    /\ probe.stage = "assembled"
    /\ Len(probe.entities) > K
    /\ Len(probe.problem.jobs) = Len(probe.entities) - 1
    /\ probe.problem.jobs[K].places[1].location = [lat |-> 1, lng |-> 0]
    /\ probe.problem.jobs[1].places[1].location = [lat |-> 0, lng |-> 1]

\* the demands of jobs lo..hi added up, by halves
RECURSIVE DemandBetween(_, _, _)
DemandBetween(js, lo, hi) ==
    IF lo > hi THEN 0
    ELSE IF lo = hi THEN js[lo].demand[1]
    ELSE LET mid == (lo + hi) \div 2
         IN  DemandBetween(js, lo, mid) + DemandBetween(js, mid + 1, hi)

TotalDemand(problem) == DemandBetween(problem.jobs, 1, Len(problem.jobs))

\* C16: the assembled problem has exactly one vehicle, its shift starts at
\* encodeLoc(0), and its capacity is at least the total demand of the jobs.
C16_CapacityCoversDemand ==
    (probe.stage = "assembled" /\ Len(probe.entities) >= 2) =>
        /\ Len(probe.problem.vehicles) = 1
        /\ Len(probe.problem.vehicles[1].shifts) = 1
        /\ probe.problem.vehicles[1].shifts[1].start.location = encodeLoc(0)
        /\ TotalDemand(probe.problem) = Len(probe.entities) - 1
        /\ probe.problem.vehicles[1].capacity[1] >= TotalDemand(probe.problem)

\* a problem assembled for CAPACITY + 2 items: one vehicle starting at the
\* anchor, and a total demand one above its capacity
C16_Witness ==
    /\ probe.stage = "assembled"
    /\ Len(probe.entities) = CAPACITY + 2
    /\ Len(probe.problem.vehicles) = 1
    /\ probe.problem.vehicles[1].shifts[1].start.location = encodeLoc(0)
    /\ TotalDemand(probe.problem) = probe.problem.vehicles[1].capacity[1] + 1

\* the first tour of run r's solution starts at the anchor and has a stop at
\* every job's location
FullTour(r) ==
    /\ runs[r].solution.kind = "list"
    /\ Len(runs[r].solution.tours) > 0
    /\ LET stops == runs[r].solution.tours[1].stops
       IN  /\ stops # <<>>
           /\ stops[1].location = encodeLoc(0)
           /\ \A k \in 1..Len(runs[r].problem.jobs) :
                 \E s \in 1..Len(stops) :
                    stops[s].location = runs[r].problem.jobs[k].places[1].location

\* C17: a run of N >= 2 items whose tour starts at the anchor and visits every
\* job ends with exactly one SORTED and no ERROR, and the order of that SORTED
\* has length N and holds every index 0..N-1, the anchor first.
C17_FullTourKeepsEveryItem ==
    \A r \in 1..Len(runs) :
        (runs[r].pc = "done" /\ Len(runs[r].entities) >= 2 /\ FullTour(r)) =>
            /\ PostedBy(r, "ERROR") = {}
            /\ Cardinality(PostedBy(r, "SORTED")) = 1
            /\ \A k \in PostedBy(r, "SORTED") :
                  LET order == posted[k].data.sortedIndices
                  IN  /\ Len(order) = Len(runs[r].entities)
                      /\ Range(order) = 0..(Len(runs[r].entities) - 1)
                      /\ order[1] = 0

\* a run of three items ended with SORTED for a tour that visits item 2
\* before item 1
C17_Witness ==
    \E r \in 1..Len(runs) :
        /\ runs[r].pc = "done"
        /\ FullTour(r)
        /\ Len(runs[r].entities) = 3
        /\ \E k \in PostedBy(r, "SORTED") :
              posted[k].data.sortedIndices = <<0, 2, 1>>

\* the position of item idx in run r's canonical location list
PosOf(r, idx) ==
    CHOOSE i \in 0..(Len(runs[r].routingLocations) - 1) : ItemAt(r, i) = idx

\* what the matrix of run r charges for visiting the items in the given order
RECURSIVE CostFrom(_, _, _)
CostFrom(r, order, k) ==
    IF k >= Len(order) THEN 0
    ELSE CellAt(r, PosOf(r, order[k]), PosOf(r, order[k + 1]))
         + CostFrom(r, order, k + 1)

TourCost(r, order) == CostFrom(r, order, 1)

\* the orders of the tours from the anchor over all items that are cheapest
\* under the matrix of run r
CheapestOrders(r) ==
    LET full == {o \in Perms(0..(Len(runs[r].entities) - 1)) : o[1] = 0}
    IN  {o \in full : \A p \in full : TourCost(r, o) <= TourCost(r, p)}

C19_SortCarriesTwoItems ==
    /\ \A i \in 1..Len(inbox) :
          inbox[i].type = "SORT" =>
              /\ Len(inbox[i].data.entities) >= 2
              /\ \A k \in 1..Len(inbox[i].data.entities) :
                    inbox[i].data.entities[k] \notin {"", " "}
    /\ \A r \in 1..Len(runs) :
          /\ Len(runs[r].entities) >= 2
          /\ \A k \in 1..Len(runs[r].entities) : runs[r].entities[k] \notin {"", " "}

\* the ready controller has turned down a click on a text of one item:
\* VALIDATION_ERROR is shown and nothing was ever sent
C19_Witness ==
    /\ mainVrpReady
    /\ status = StatusLine("VALIDATION_ERROR", "NULL_SET_OR_INSUFFICIENT_NODES")
    /\ inbox = <<>>
    /\ runs = <<>>
    /\ ~sortBtnDisabled

\* the camera: where the deck looks, and how close
Camera(d) == <<d.viewState.target, d.viewState.zoom>>

\* the step handles a SORTED message
SortedArrives ==
    /\ Len(received') = Len(received) + 1
    /\ received'[Len(received')].type = "SORTED"

\* C20: a step that changes a visual parameter while a result is shown leaves
\* the camera's target and zoom as they were, and a step that brings the
\* camera back to the default framing handles a SORTED message.
C20_ParameterChangeKeepsCamera ==
    [][/\ (layerState' # layerState /\ currentMapData.present)
            => Camera(deck') = Camera(deck)
       /\ (Camera(deck') # Camera(deck)
             /\ Camera(deck') = <<DefaultViewState.target, DefaultViewState.zoom>>)
            => SortedArrives]_vars

\* C21: a step that changes a visual parameter sends nothing to the worker
\* and changes nothing of the worker, of the channel to the controller, of
\* the controller's readiness, button, status line and stored result, and of
\* the camera: only the parameter and the deck's layers change.
C21_ParameterChangeTouchesLayersOnly ==
    [][layerState' # layerState =>
          /\ inbox' = inbox
          /\ currentMapData' = currentMapData
          /\ workerVars' = workerVars
          /\ channelVars' = channelVars
          /\ mainVars' = mainVars
          /\ Camera(deck') = Camera(deck)]_vars

\* the weaker statement that does hold of a parameter change: nothing is
\* sent, and the stored result stays
C21_ParameterChangeKeepsResult ==
    [][layerState' # layerState =>
          /\ inbox' = inbox
          /\ currentMapData' = currentMapData
          /\ workerVars' = workerVars
          /\ channelVars' = channelVars
          /\ mainVars' = mainVars]_vars

\* the index has a coordinate in the stored result
HasCoordinate(targetIndex) ==
    targetIndex \in 0..(Len(currentMapData.coordinates) - 1)

\* C22: a call of flyToEntity changes nothing but the deck, and of the deck
\* not the layers; it changes nothing at all when no result is stored or the
\* index has no coordinate, and else it sets the zoom for a close view.
C22_FlyToMovesCameraOnly ==
    [][probe' # probe =>
          /\ workerVars' = workerVars
          /\ channelVars' = channelVars
          /\ mainVars' = mainVars
          /\ layerState' = layerState
          /\ deck'.layers = deck.layers
          /\ (~currentMapData.present \/ ~HasCoordinate(probe'.targetIndex))
                => deck' = deck
          /\ (currentMapData.present /\ HasCoordinate(probe'.targetIndex))
                => deck'.viewState.zoom = 3]_vars

\* a result is shown with its layers, an earlier call has moved the camera
\* onto an item, and the last call, for an index with no coordinate, has
\* left it there
C22_Witness ==
    /\ probe.stage = "flown"
    /\ currentMapData.present
    /\ ~HasCoordinate(probe.targetIndex)
    /\ deck.layers # <<>>
    /\ deck.viewState.zoom = 3
    /\ deck.viewState.target # Origin

\* positions of the messages of type `type` that initialize() posted
PostedByInit(type) == PostedBy(0, type)

\* C23: no second load is started (initialize() runs once in the worker's
\* lifetime, INIT or not), and READY is posted at most once.
C23_InitializesOnce ==
    /\ Len(inits) <= 1
    /\ Cardinality(PostedByInit("READY")) <= 1

\* an INIT was handled: two invocations of initialize() have both loaded
\* both collaborators, and READY was posted twice
C23_Witness ==
    /\ Len(inits) = 2
    /\ inits[1] = "done" /\ inits[2] = "done"
    /\ Cardinality(PostedByInit("READY")) = 2

\* C24: once initialize() has posted an ERROR, the worker posts neither READY
\* nor SORTED afterwards.
C24_InitFailureIsFinal ==
    \A i, j \in 1..Len(posted) :
        (i < j /\ posted[i].type = "ERROR" /\ posted[i].run = 0)
        => posted[j].type \notin {"READY", "SORTED"}

\* the initialization at load failed with ERROR; after an INIT the worker
\* posted READY and, for a SORT, SORTED
C24_Witness ==
    /\ Len(inits) = 2
    /\ inits[1] = "failed" /\ inits[2] = "done"
    /\ \E i, j, k \in 1..Len(posted) :
          /\ i < j /\ j < k
          /\ posted[i].type = "ERROR" /\ posted[i].run = 0
          /\ posted[j].type = "READY"
          /\ posted[k].type = "SORTED"

\* the invocations of initialize() that stand at `at`
InitsAt(at) == {k \in 1..Len(inits) : inits[k] = at}

\* C25: once a READY is posted, vrpReady is true and extractor is set; every
\* invocation of initialize() that ended has posted one message: READY if
\* both loads succeeded, ERROR (and no READY) if one of them failed.
C25_ReadyMeansBothLoaded ==
    /\ PostedByInit("READY") # {} => (vrpReady /\ extractor)
    /\ Cardinality(PostedByInit("READY")) = Cardinality(InitsAt("done"))
    /\ Cardinality(PostedByInit("ERROR")) = Cardinality(InitsAt("failed"))
    /\ \A i \in PostedByInit("ERROR") :
          posted[i].text \in {"Init error: init", "Init error: pipeline"}

\* one invocation has posted READY, another has failed loading the embedding
\* model and posted ERROR
C25_Witness ==
    /\ Len(inits) = 2
    /\ inits[1] = "done" /\ inits[2] = "failed"
    /\ Cardinality(PostedByInit("READY")) = 1
    /\ \E i \in PostedByInit("ERROR") : posted[i].text = "Init error: pipeline"
    /\ vrpReady /\ extractor

\* the stages of a run in the order of the specification, by the run's place
\* in runSort: a run at pc has stage StageRank(pc) ahead of it or under way
StageRank(pc) ==
    CASE pc = "awaitEmbed" -> 1
      [] pc = "project"    -> 2
      [] pc = "assemble"   -> 3
      [] pc = "query"      -> 4
      [] pc = "matrix"     -> 5
      [] pc = "solve"      -> 6
      [] pc = "decode"     -> 7
      [] OTHER             -> 0

\* the texts of the STATUS messages run r has posted, in the order posted
StatusTexts(r) ==
    LET at == SelectSeq([i \in 1..Len(posted) |-> i],
                        LAMBDA i : posted[i].run = r /\ posted[i].type = "STATUS")
    IN  [k \in 1..Len(at) |-> posted[at[k]].text]

StatusTextsOfRunSort ==
    << "Computing embeddings...", "Projecting with UMAP (2D)...",
       "Calculating distance matrix...", "Solving TSP (WASM)..." >>

\* how many STATUS messages a run has posted when the stage is ahead
StatusesBefore(rank) ==
    CASE rank = 1 -> 1
      [] rank = 2 -> 2
      [] rank \in {3, 4, 5} -> 3
      [] OTHER -> 4

\* the outputs of the stages before stage `rank` are there, those of the
\* stages from `rank` on are not: the stages have run in order
OutputsUpTo(r, rank) ==
    /\ (runs[r].embeddings # <<>>) = (rank > 1)
    /\ (runs[r].coordinates # <<>>) = (rank > 2)
    /\ (runs[r].problem # NoProblem) = (rank > 3)
    /\ (runs[r].routingLocations # <<>>) = (rank > 4)
    /\ (runs[r].distances # <<>>) = (rank > 5)
    /\ (runs[r].solution # NoSolution) = (rank > 6)

\* C26 (as stated): a run with stage k of the seven ahead has posted k STATUS
\* messages, one for each stage up to k.
C26_StatusPerStage ==
    \A r \in 1..Len(runs) :
        StageRank(runs[r].pc) > 0 =>
            /\ Len(StatusTexts(r)) = StageRank(runs[r].pc)
            /\ OutputsUpTo(r, StageRank(runs[r].pc))

\* C26 (amended): the stages run in the order of the specification, and a
\* run posts four STATUS messages: before Embedding, before Projecting,
\* before AssemblingProblem (none before QueryingLocations and
\* BuildingMatrix) and before Solving (none before Decoding).
C26_FourStatusInOrder ==
    \A r \in 1..Len(runs) :
        StageRank(runs[r].pc) > 0 =>
            /\ StatusTexts(r)
                  = SubSeq(StatusTextsOfRunSort, 1,
                           StatusesBefore(StageRank(runs[r].pc)))
            /\ OutputsUpTo(r, StageRank(runs[r].pc))

\* a run is about to decode a solution, after four STATUS messages
C26_Witness ==
    \E r \in 1..Len(runs) :
        /\ runs[r].pc = "decode"
        /\ StatusTexts(r) = StatusTextsOfRunSort
        /\ runs[r].solution.kind = "list"
        /\ runs[r].distances # <<>>

\* the stage that throws the error of the given text
ThrowingStage(e) ==
    CASE e = "Error: extractor"             -> 1
      [] e = "Error: umap"                  -> 2
      [] e = "Error: get_routing_locations" -> 4
      [] e = "TypeError: Cannot read properties of null (reading 'lat')" -> 5
      [] e = "Error: solve_pragmatic"       -> 6
      [] e = "TypeError: Cannot read properties of null (reading 'location')" -> 7
      [] OTHER                              -> 0

\* the positions in `posted` of the messages of run r
PostedOf(r) == {i \in 1..Len(posted) : posted[i].run = r}

\* C27: when a stage of a run throws, no later stage runs (their outputs
\* stay absent and no further STATUS is posted), no SORTED is posted, and
\* the run ends with one ERROR, its last message, carrying the error's text.
C27_ThrowEndsRunWithItsError ==
    \A r \in 1..Len(runs) :
        runs[r].thrown # "" =>
            /\ runs[r].pc = "done"
            /\ ThrowingStage(runs[r].thrown) > 0
            /\ OutputsUpTo(r, ThrowingStage(runs[r].thrown))
            /\ runs[r].sortedIndices = <<>>
            /\ Len(StatusTexts(r)) = StatusesBefore(ThrowingStage(runs[r].thrown))
            /\ PostedBy(r, "SORTED") = {}
            /\ \E i \in PostedOf(r) :
                  /\ PostedBy(r, "ERROR") = {i}
                  /\ posted[i].text = runs[r].thrown
                  /\ \A j \in PostedOf(r) : j <= i

\* a run whose decoding threw, and another whose projection threw
C27_Witness ==
    /\ \E r \in 1..Len(runs) : ThrowingStage(runs[r].thrown) = 7
    /\ \E r \in 1..Len(runs) : ThrowingStage(runs[r].thrown) = 2

\* C28: a run keeps the item sequence of the SORT message that started it,
\* and a SORTED message carries the order decoded from the solution, the
\* run's embeddings and coordinates, and that item sequence unchanged.
C28_SortedCarriesRunData ==
    [][ /\ Len(runs') >= Len(runs)
        /\ \A r \in 1..Len(runs) : runs'[r].entities = runs[r].entities
        /\ Len(runs') > Len(runs) =>
              /\ inbox # <<>>
              /\ Head(inbox).type = "SORT"
              /\ runs'[Len(runs')].entities = Head(inbox).data.entities
        /\ \A k \in (Len(posted) + 1)..Len(posted') :
              posted'[k].type = "SORTED" =>
                 LET r == posted'[k].run
                     data == posted'[k].data
                 IN  /\ data.entities = runs[r].entities
                     /\ data.embeddings = runs[r].embeddings
                     /\ Len(data.embeddings) = Len(data.entities)
                     /\ data.coordinates = runs[r].coordinates
                     /\ Len(data.coordinates) = Len(data.entities)
                     /\ data.sortedIndices = runs'[r].sortedIndices
                     /\ data.sortedIndices
                           = decodeStops(runs[r].solution.tours[1].stops)
      ]_vars

\* a SORTED message for the three items of a request, in the solver's order
C28_Witness ==
    \E k \in 1..Len(posted) :
        /\ posted[k].type = "SORTED"
        /\ posted[k].data.entities = <<"Cat", "Dog", "Car">>
        /\ posted[k].data.sortedIndices = <<0, 1, 2>>
        /\ Len(posted[k].data.embeddings) = 3
        /\ Len(posted[k].data.coordinates) = 3

\* the controller's handler takes the message at the head of its queue
Handles(type) ==
    /\ toMain # <<>>
    /\ Head(toMain).type = type
    /\ received' = Append(received, Head(toMain))

\* C29: the step of the controller that handles an ERROR shows the message's
\* text, enables the sort button, sends the worker nothing, and leaves the
\* stored result and the map as they were.
C29_ErrorShownNoRetry ==
    [][ Handles("ERROR") =>
           /\ status' = [kind |-> "FATAL_EXCEPTION", text |-> Head(toMain).text]
           /\ Head(toMain).text # ""
           /\ sortBtnDisabled' = FALSE
           /\ inbox' = inbox
           /\ currentMapData' = currentMapData
           /\ deck' = deck
           /\ mainVrpReady' = mainVrpReady
      ]_vars

\* the second run failed after the first one's result was stored: the error
\* is shown, the button is enabled, nothing is queued for the worker and the
\* first result is still there
C29_Witness ==
    /\ Len(received) > 0
    /\ received[Len(received)].type = "ERROR"
    /\ received[Len(received)].run = 2
    /\ status = [kind |-> "FATAL_EXCEPTION", text |-> received[Len(received)].text]
    /\ ~sortBtnDisabled
    /\ inbox = <<>>
    /\ currentMapData.present
    /\ \E k \in 1..Len(received) :
          /\ received[k].type = "SORTED"
          /\ received[k].run = 1
          /\ currentMapData.entities = received[k].data.entities

\* the SORT messages the controller has sent: those the worker has not yet
\* taken and those that started a run
SortsSent == Len(inbox) + Len(runs)

\* the SORTED and ERROR messages of runs the controller has received
TerminalsReceived ==
    Cardinality({k \in 1..Len(received) :
                    received[k].run > 0 /\ received[k].type \in {"SORTED", "ERROR"}})

\* the runs the worker has started and not ended
RunsUnderWay == {r \in 1..Len(runs) : runs[r].pc # "done"}

\* C30: at most one SORT is without its SORTED or ERROR at the controller,
\* the sort button is disabled for as long as it is, and the worker never
\* holds more than one request or run that has not ended.
C30_OneRunInFlight ==
    /\ SortsSent - TerminalsReceived \in {0, 1}
    /\ SortsSent - TerminalsReceived = 1 => sortBtnDisabled
    /\ Len(inbox) + Cardinality(RunsUnderWay) <= 1
    /\ Len(inbox) + Cardinality(RunsUnderWay) <= SortsSent - TerminalsReceived

\* the second request is under way after the first one's result came back
C30_Witness ==
    /\ Len(runs) = 2
    /\ TerminalsReceived = 1
    /\ RunsUnderWay = {2}
    /\ sortBtnDisabled
    /\ currentMapData.present

\* the positions in `received` of the SORTED messages
SortedReceived == {k \in 1..Len(received) : received[k].type = "SORTED"}

\* C31: the stored result is absent until a SORTED is received, and from then
\* on it is the payload of the SORTED received last, whatever else the
\* controller has handled or done since.
C31_StoredResultIsLastSorted ==
    IF SortedReceived = {}
    THEN currentMapData = NoResult
    ELSE LET data == received[SetMax(SortedReceived)].data
         IN  /\ currentMapData.present
             /\ currentMapData.sortedIndices = data.sortedIndices
             /\ currentMapData.entities = data.entities
             /\ currentMapData.embeddings = data.embeddings
             /\ currentMapData.coordinates = data.coordinates

\* two results of different items were received, then the controls were
\* worked and the camera flown: the second result is the stored one
C31_Witness ==
    /\ Cardinality(SortedReceived) = 2
    /\ received[SetMin(SortedReceived)].data.entities = <<"Cat", "Dog">>
    /\ received[Len(received)].type = "SORTED"
    /\ currentMapData.entities = <<"Dog", "Car">>
    /\ layerState # InitialLayerState
    /\ deck.viewState # DefaultViewState

\* run r has posted its first STATUS
Begun(r) == r <= Len(runs) /\ PostedBy(r, "STATUS") # {}

\* run r has posted its SORTED or ERROR
Ended(r) == PostedBy(r, "SORTED") \cup PostedBy(r, "ERROR") # {}

\* the controller has just handled the SORTED or ERROR of run r
JustHandledEndOf(r) ==
    /\ Len(received) > 0
    /\ received[Len(received)].run = r
    /\ received[Len(received)].type \in {"SORTED", "ERROR"}

\* the controller has handled the SORTED or ERROR of run r
EndHandled(r) ==
    \E k \in 1..Len(received) :
        received[k].run = r /\ received[k].type \in {"SORTED", "ERROR"}

\* C32: a run that has posted its first STATUS posts a SORTED or an ERROR
\* in the end, and the controller then handles it and leaves the sort
\* button enabled.
C32_BegunRunEndsAndButtonReturns ==
    \A r \in 1..RunBudget("live") :
        (Begun(r) /\ ~EndHandled(r))
           ~> (Ended(r) /\ JustHandledEndOf(r) /\ ~sortBtnDisabled)

\* the second run was begun, has failed in a stage, and its ERROR has just
\* been handled: the button is enabled again
C32_Witness ==
    /\ Begun(2)
    /\ runs[2].thrown # ""
    /\ JustHandledEndOf(2)
    /\ ~sortBtnDisabled
    /\ toMain = <<>>

\* the decoded indices of the stops of the first tour of run r, in order
DecodedStops(r) ==
    LET stops == runs[r].solution.tours[1].stops
    IN  [i \in 1..Len(stops) |-> decodeLoc(stops[i].location)]

\* the position of the first occurrence of x in seq
FirstAt(seq, x) == SetMin({i \in 1..Len(seq) : seq[i] = x})

\* C33: the order of a SORTED message holds every decoded stop index of the
\* first tour once, in the order of their first occurrences in the stop list.
C33_OrderOfFirstOccurrences ==
    \A k \in 1..Len(posted) :
        posted[k].type = "SORTED" =>
            LET order == posted[k].data.sortedIndices
                decoded == DecodedStops(posted[k].run)
            IN  /\ Range(order) = Range(decoded)
                /\ Len(order) = Cardinality(Range(decoded))
                /\ \A a, b \in 1..Len(order) :
                      a < b => FirstAt(decoded, order[a]) < FirstAt(decoded, order[b])

\* a SORTED for a tour that visits item 1, then item 0, then item 1 again
C33_Witness ==
    \E k \in 1..Len(posted) :
        /\ posted[k].type = "SORTED"
        /\ DecodedStops(posted[k].run) = <<1, 0, 1>>
        /\ posted[k].data.sortedIndices = <<1, 0>>

\* two positions are the same point of the map
SamePoint(p, q) == p.x * q.den = q.x * p.den /\ p.y * q.den = q.y * p.den

\* the positions at which the deck's layers draw the items: those of its
\* point layers
DrawnPositions(d) ==
    {d.layers[i].positions :
        i \in {j \in 1..Len(d.layers) : d.layers[j].id \in {"scatter-layer", "text-layer"}}}

\* C34: a call of flyToEntity for an item of the stored result asks for the
\* camera target at which the layers of the map draw that item.
C34_FlyTargetIsDrawnPosition ==
    [][(probe' # probe /\ currentMapData.present /\ HasCoordinate(probe'.targetIndex))
          => /\ DrawnPositions(deck) # {}
             /\ \A positions \in DrawnPositions(deck) :
                   /\ Len(positions) = Len(currentMapData.coordinates)
                   /\ SamePoint(deck'.initialViewState.target,
                                positions[probe'.targetIndex + 1])]_vars

\* the camera was sent to the third of three items, which the map draws
\* away from its centre
C34_Witness ==
    /\ probe.stage = "flown"
    /\ probe.targetIndex = 2
    /\ currentMapData.present
    /\ Len(currentMapData.coordinates) = 3
    /\ DrawnPositions(deck) # {}
    /\ \A positions \in DrawnPositions(deck) :
          /\ positions[3] = deck.initialViewState.target
          /\ positions[3] # Origin
    /\ deck.viewState.target = deck.initialViewState.target

\* the controller has received READY
ReadyReceived == \E k \in 1..Len(received) : received[k].type = "READY"

\* C35: the controller has sent a SORT only if it has received READY before,
\* and it holds the worker for ready exactly when it has received READY.
C35_NoSortBeforeReady ==
    /\ SortsSent > 0 => ReadyReceived
    /\ mainVrpReady = ReadyReceived
    /\ \A k \in 1..Len(inbox) : inbox[k].type = "SORT"

\* the initialization has failed and its ERROR has enabled the sort button:
\* nothing was sent to the worker
C35_Witness ==
    /\ received # <<>>
    /\ received[Len(received)].type = "ERROR"
    /\ received[Len(received)].run = 0
    /\ ~sortBtnDisabled
    /\ ~mainVrpReady
    /\ SortsSent = 0

\* run r was refused by the readiness guard
Refused(r) == \E i \in PostedOf(r) : posted[i].text = "Worker not ready"

\* C36: a SORT taken while the solver module or the embedding model is not
\* initialized starts a run that posts the ERROR 'Worker not ready' and
\* nothing else, runs no stage, and leaves the worker's initialization as it
\* was; such a run never does anything later.
C36_NotReadyAnswersOneError ==
    [][/\ (Len(runs') > Len(runs) /\ (~extractor \/ ~vrpReady))
            => /\ posted' = Append(posted,
                                   [type |-> "ERROR", text |-> "Worker not ready",
                                    data |-> NoData, run |-> Len(runs')])
               /\ toMain' = Append(toMain, posted'[Len(posted')])
               /\ extractor' = extractor
               /\ vrpReady' = vrpReady
               /\ inits' = inits
               /\ running' = running
       /\ \A r \in 1..Len(runs') :
             Refused(r)' =>
                /\ Cardinality(PostedOf(r)') = 1
                /\ PostedBy(r, "STATUS")' = {}
                /\ runs'[r].pc = "done"
                /\ OutputsUpTo(r, 1)'
                /\ runs'[r].sortedIndices = <<>>]_vars

\* the solver module is initialized and the embedding model is not: a SORT
\* was refused, and its ERROR is all the run has posted
C36_Witness ==
    /\ vrpReady
    /\ ~extractor
    /\ PostedByInit("READY") = {}
    /\ \E r \in 1..Len(runs) :
          /\ Refused(r)
          /\ Cardinality(PostedOf(r)) = 1
          /\ runs[r].embeddings = <<>>

\* the runs that have posted their first STATUS and not yet their SORTED or
\* ERROR
RunsInProgress == {r \in 1..Len(runs) : Begun(r) /\ ~Ended(r)}

\* the step takes a message from the worker's queue: ctx.onmessage runs
WorkerTakesMessage == Len(inbox') < Len(inbox)

\* C37: while a run is between its first STATUS and its SORTED or ERROR, the
\* worker takes no INIT or SORT from its queue, and no other run posts.
C37_NoMessageHandledDuringRun ==
    [][\A r \in RunsInProgress :
          /\ ~WorkerTakesMessage
          /\ \A k \in (Len(posted) + 1)..Len(posted') : posted'[k].run = r]_vars

\* what does hold of the worker: from the return of the extractor to the
\* run's SORTED or ERROR it takes no message, and nothing else of it posts
C37_NoInterleavingAfterAwait ==
    [][running # 0 =>
          /\ ~WorkerTakesMessage
          /\ inits' = inits
          /\ \A k \in (Len(posted) + 1)..Len(posted') : posted'[k].run = running]_vars

\* the STATUS of a second run stands between two messages of the first
C37_Witness ==
    \E i, j, k \in 1..Len(posted) :
        /\ i < j /\ j < k
        /\ posted[i].run = 1 /\ posted[i].type = "STATUS"
        /\ posted[j].run = 2 /\ posted[j].type = "STATUS"
        /\ posted[k].run = 1

\* C38 (as stated): every cell of a built matrix is a non-negative integer,
\* and every cell computed from two embeddings is below the penalty.
C38_ComputedCellsBelowPenalty ==
    \A r \in 1..Len(runs) :
        MatrixBuilt(r) =>
            \A i, j \in 0..(Len(runs[r].routingLocations) - 1) :
                /\ CellAt(r, i, j) \in Nat
                /\ (IsItem(r, i) /\ IsItem(r, j)) => CellAt(r, i, j) < PENALTY

\* C38 (amended): every cell of a built matrix is an integer from 0 to the
\* penalty; a cell of a location with no embedding is the penalty, so no
\* cell is more expensive; a computed cell equals the penalty exactly when
\* the two embeddings point in opposite directions.
C38_PenaltyIsLargestCell ==
    \A r \in 1..Len(runs) :
        MatrixBuilt(r) =>
            \A i, j \in 0..(Len(runs[r].routingLocations) - 1) :
                /\ CellAt(r, i, j) \in 0..PENALTY
                /\ (~IsItem(r, i) \/ ~IsItem(r, j)) => CellAt(r, i, j) = PENALTY
                /\ (IsItem(r, i) /\ IsItem(r, j)) =>
                      LET a == EmbeddingAt(r, i)
                          b == EmbeddingAt(r, j)
                      IN  (CellAt(r, i, j) = PENALTY)
                             = (Dot(a, b) < 0
                                  /\ Dot(a, b) * Dot(a, b) = Dot(a, a) * Dot(b, b))

\* a built matrix with a penalty cell for a location with no embedding and a
\* computed cell of the same value, for Cat and Car
C38_Witness ==
    \E r \in 1..Len(runs) :
        /\ MatrixBuilt(r)
        /\ \E i, j, k \in 0..(Len(runs[r].routingLocations) - 1) :
              /\ IsItem(r, i) /\ IsItem(r, j) /\ ~IsItem(r, k)
              /\ runs[r].entities[ItemAt(r, i) + 1] = "Cat"
              /\ runs[r].entities[ItemAt(r, j) + 1] = "Car"
              /\ CellAt(r, i, j) = PENALTY
              /\ CellAt(r, i, k) = PENALTY

\* C39: a step that moves the threshold slider changes, besides the slider,
\* only the threshold shown with the table (and only once a result was
\* shown): the deck with its layers and camera, the visual parameters, the
\* table's rows, the stored result, the controller's other state, the worker
\* and the messages between them stay as they were.
C39_ThresholdChangeShowsThresholdOnly ==
    [][matrixTable'.threshIn # matrixTable.threshIn =>
          /\ deck' = deck
          /\ layerState' = layerState
          /\ currentMapData' = currentMapData
          /\ mainVars' = mainVars
          /\ inbox' = inbox
          /\ workerVars' = workerVars
          /\ channelVars' = channelVars
          /\ matrixTable'.rows = matrixTable.rows
          /\ IF currentMapData.present
             THEN /\ matrixTable'.threshVal
                        = toFixed2(parseFloat(matrixTable'.threshIn))
                  /\ matrixTable'.threshold
                        = toString(parseFloat(matrixTable'.threshIn))
             ELSE /\ matrixTable'.threshVal = matrixTable.threshVal
                  /\ matrixTable'.threshold = matrixTable.threshold]_vars

\* three items are shown, the camera is on one of them, and the slider was
\* moved to 1: the table shows 1.00 and still has its rows, the layers are
\* there and the camera has stayed
C39_Witness ==
    /\ currentMapData.present
    /\ matrixTable = [rows |-> 3, threshIn |-> "1", threshVal |-> "1.00",
                      threshold |-> "1"]
    /\ deck.layers # <<>>
    /\ deck.viewState.zoom = 3
    /\ deck.viewState.target # Origin
    /\ toMain = <<>>

====
